---- MODULE Spec2Model ----
(***************************************************************************)
(* TokyoTimes NPC navigation / behaviour stack.                            *)
(*                                                                         *)
(* Geometry: every scene is a strip of Width pixels (one row of the        *)
(* collision mask); a position is the pixel index of the NPC's feet.  One  *)
(* update moves an NPC by one pixel (speed * dt = 1).  Times are counted   *)
(* in update ticks (dt = 1).  Props, sprites and animation are not         *)
(* modelled.  The NPC carries a collision-mask extractor, so its feet are  *)
(* FeetOffset away from the sprite origin npc.x.                           *)
(***************************************************************************)
EXTENDS Integers, Sequences, FiniteSets, TLC

\* ------------------------------------------------------------------ bounds
IdleMin == 1          \* idle_min_duration, in ticks
IdleMax == 2          \* idle_max_duration, in ticks
MaxTravelTime == 3    \* max_travel_time, in ticks
RepathInterval == 3   \* repath_interval, in ticks
StuckLimit == 1       \* stuck time (ticks) that must be exceeded to re-path
DayLength == 3        \* game-clock increments in a day
MaxSchedLen == 3      \* entries of the longest schedule document

\* --------------------------------------------------------------- constants
FeetOffset == 2       \* int(mask_offset_x * sprite_scale)
SearchRadius == 2     \* neighbourhood searched for a walkable start
WanderMinDist == 1    \* wander_min_distance, in pixels of the strip
WanderRadius == 2     \* wander_radius
PortalMinDist == 1    \* wander_portal_min_distance
WanderProb == 65      \* wander_probability, percent
TravelProb == 10      \* travel_probability, percent
TravelMult == 20      \* TRAVEL_PROBABILITY_MULT, percent
ClockTicks == 1       \* time_until_next_increment, in ticks
DayStart == 480       \* game clock: 8:00, in minutes since midnight
ClockStep == 15       \* game_time_increment
DayEnd == DayStart + DayLength * ClockStep   \* game clock: reset when reached

dt == 1

\* No timer threshold (idle duration, warp time, travel timeout) exceeds it.
TimeCap == IF MaxTravelTime >= IdleMax THEN MaxTravelTime ELSE IdleMax

NoPos == 0 - 100
NoPortal == 0 - 1
NoScene == "none"
TitleScene == "title"

STATE_IDLE == "IdleState"
STATE_WANDER == "WanderState"
STATE_TRAVEL == "TravelToSceneState"
States == {STATE_IDLE, STATE_WANDER, STATE_TRAVEL}

Scenes == {"S1", "S2", "S3"}

\* With the rooms into which no door leads: S4 has two doors that lead out,
\* S5 a door onto itself and a door that leads out, S6 only a door onto
\* itself, S7 no door.
AllScenes == Scenes \cup {"S4", "S5", "S6", "S7", "S8"}
NpcIds == {"henry"}
NpcOrder == <<"henry">>

\* ------------------------------------------------------- collision masks
\* "W" black (walkable), "P" white (portal), "B" anything else (blocked).
\* Pixel i of the strip is MaskImage[s][i + 1].
MaskImage ==
  [S1 |-> <<"W", "W", "P">>,
   S2 |-> <<"P", "W", "P">>,
   S3 |-> <<"W", "P", "B">>,
   S4 |-> <<"P", "W", "P">>,
   S5 |-> <<"P", "W", "P">>,
   S6 |-> <<"P", "W", "W">>,
   S7 |-> <<"W", "W", "B">>,
   S8 |-> <<"W", "P", "W">>]

Width == Len(MaskImage["S1"])

InBounds(x) == x >= 0 /\ x < Width

MaskPixel(s, x) == MaskImage[s][x + 1]

is_walkable(s, x) ==
  IF ~InBounds(x) THEN FALSE
  ELSE MaskPixel(s, x) \in {"W", "P"}

IsWhite(s, x) == InBounds(x) /\ MaskPixel(s, x) = "P"

\* A region starts at a white pixel whose left neighbour is not white; ids
\* are handed out in scan order.
RegionStarts(s) ==
  {x \in 0..(Width - 1) : IsWhite(s, x) /\ ~IsWhite(s, x - 1)}

RegionStartOf(s, x) ==
  CHOOSE a \in RegionStarts(s) :
    a <= x /\ \A y \in a..x : IsWhite(s, y)

\* _detect_portal_regions of every mask, computed once at load: id -> pixels.
PortalRegionsOf ==
  [s \in AllScenes |->
     [pid \in 0..(Cardinality(RegionStarts(s)) - 1) |->
        LET a == CHOOSE b \in RegionStarts(s) :
                   Cardinality({c \in RegionStarts(s) : c < b}) = pid
        IN {x \in 0..(Width - 1) : IsWhite(s, x) /\ RegionStartOf(s, x) = a}]]

portal_regions(s) == PortalRegionsOf[s]

is_portal(s, x) ==
  IF ~InBounds(x) THEN NoPortal
  ELSE IF MaskPixel(s, x) = "P"
       THEN CHOOSE pid \in DOMAIN portal_regions(s) : x \in portal_regions(s)[pid]
       ELSE NoPortal

SetMin(S) == CHOOSE a \in S : \A b \in S : a <= b
SetMax(S) == CHOOSE a \in S : \A b \in S : a >= b

\* get_portal_bounds(...).centerx: left + width // 2; NoPos when the id is
\* not a region of the mask.
portal_center(s, pid) ==
  IF pid \notin DOMAIN portal_regions(s) THEN NoPos
  ELSE LET r == portal_regions(s)[pid]
       IN SetMin(r) + ((SetMax(r) - SetMin(r) + 1) \div 2)

\* ------------------------------------------------------------ portal maps
\* PORTAL_MAP of each scene: portal id -> (to_scene, spawn).
PORTAL_MAP ==
  [S1 |-> <<[portal |-> 0, to_scene |-> "S2", spawn |-> 1]>>,
   S2 |-> <<[portal |-> 0, to_scene |-> "S1", spawn |-> 1],
            [portal |-> 1, to_scene |-> "S3", spawn |-> 0]>>,
   S3 |-> <<[portal |-> 0, to_scene |-> "S2", spawn |-> 1]>>,
   S4 |-> <<[portal |-> 0, to_scene |-> "S2", spawn |-> 1],
            [portal |-> 1, to_scene |-> "S1", spawn |-> 1]>>,
   S5 |-> <<[portal |-> 0, to_scene |-> "S5", spawn |-> 1],
            [portal |-> 1, to_scene |-> "S1", spawn |-> 1]>>,
   S6 |-> <<[portal |-> 0, to_scene |-> "S6", spawn |-> 1]>>,
   S7 |-> <<>>,
   S8 |-> <<[portal |-> 0, to_scene |-> "S7", spawn |-> 1]>>]

HasPortalConfig(s, pid) == \E i \in DOMAIN PORTAL_MAP[s] : PORTAL_MAP[s][i].portal = pid

PortalConfig(s, pid) ==
  PORTAL_MAP[s][CHOOSE i \in DOMAIN PORTAL_MAP[s] : PORTAL_MAP[s][i].portal = pid]

\* ------------------------------------------------------------ scene graph
\* populate_scene_graph_from_registry: every portal of every scene's
\* PORTAL_MAP is registered as an edge out of that scene, in order.
populate_both_ways(maps) ==
  LET Back(s, t) ==
        LET sel == SelectSeq(maps[t], LAMBDA e : e.to_scene = s)
        IN [i \in 1..Len(sel) |->
              [portal |-> sel[i].portal, to_scene |-> t, spawn |-> sel[i].spawn]]
  IN [s \in DOMAIN maps |-> maps[s] \o Back(s, "S1") \o Back(s, "S2") \o Back(s, "S3")]

populate_scene_graph_from_registry(maps) == [s \in DOMAIN maps |-> maps[s]]

\* connections[scene]: the registered portal edges, in registration order.
connections == populate_scene_graph_from_registry(PORTAL_MAP)

Hop(scene, portal, spawn) == [scene |-> scene, portal |-> portal, spawn |-> spawn]

\* Breadth-first search over the edges conn; a queue entry is <<scene, hops
\* so far>>.  Expanding an entry walks its edges in registration order; the
\* first edge into the target ends the search.
RECURSIVE BfsExpand(_, _, _, _, _, _)
RECURSIVE BfsLoop(_, _, _, _)
RECURSIVE BfsExpandDepthFirst(_, _, _, _, _, _)

\* The search that follows each new scene at once, before its siblings.
BfsExpandDepthFirst(conn, entry, i, queue, visited, goal) ==
  LET edges == conn[entry[1]]
  IN IF i > Len(edges) THEN <<>>
     ELSE LET e == edges[i]
              hops == Append(entry[2], Hop(entry[1], e.portal, e.spawn))
              Deeper(found) ==
                IF found # <<>> THEN found
                ELSE BfsExpandDepthFirst(conn, entry, i + 1, queue, visited, goal)
          IN IF e.to_scene \in visited
             THEN BfsExpandDepthFirst(conn, entry, i + 1, queue, visited, goal)
             ELSE IF e.to_scene = goal
                  THEN Append(hops, Hop(goal, NoPortal, e.spawn))
                  ELSE Deeper(BfsExpandDepthFirst(conn, <<e.to_scene, hops>>, 1, queue,
                                                  visited \cup {e.to_scene}, goal))

BfsExpand(conn, entry, i, queue, visited, goal) ==
  LET edges == conn[entry[1]]
  IN IF i > Len(edges) THEN BfsLoop(conn, queue, visited, goal)
     ELSE LET e == edges[i]
              hops == Append(entry[2], Hop(entry[1], e.portal, e.spawn))
          IN IF e.to_scene \in visited
             THEN BfsExpand(conn, entry, i + 1, queue, visited, goal)
             ELSE IF e.to_scene = goal
                  THEN Append(hops, Hop(goal, NoPortal, e.spawn))
                  ELSE BfsExpand(conn, entry, i + 1,
                                 Append(queue, <<e.to_scene, hops>>),
                                 visited \cup {e.to_scene}, goal)

BfsLoop(conn, queue, visited, goal) ==
  IF queue = <<>> THEN <<>>
  ELSE BfsExpand(conn, Head(queue), 1, Tail(queue), visited, goal)

ScenePathSearch(conn, from, to) ==
  IF from = to THEN <<>>
  ELSE BfsLoop(conn, << <<from, <<>> >> >>, {from}, to)

\* The graph does not change after start-up, so neither do the answers.
ScenePathTable ==
  [from \in AllScenes |->
     [to \in AllScenes |-> ScenePathSearch(connections, from, to)]]

find_scene_path(from, to) ==
  IF from \notin AllScenes \/ to \notin AllScenes THEN <<>>
  ELSE ScenePathTable[from][to]

\* --------------------------------------------------------------- the NPC
\* path: waypoints (feet pixels); scene_path: hops, <<>> for None.
NewNPC(feet) ==
  [x |-> feet - FeetOffset,
   path |-> <<>>, current_waypoint_idx |-> 0, destination |-> NoPos,
   stuck_timer |-> 0, repath_timer |-> 0, last_position |-> feet,
   target_scene |-> NoScene, scene_path |-> <<>>, current_scene_step |-> 0,
   scene |-> NoScene, mask_system |-> NoScene,
   force_travel_next |-> FALSE,
   state |-> STATE_IDLE, time_in_state |-> 0, duration |-> IdleMin,
   wander_target |-> NoPos, warp_time |-> 0]

Abs(a) == IF a < 0 THEN 0 - a ELSE a

_get_feet_position(n) == n.x + FeetOffset

_set_position_from_feet(n, feet) == [n EXCEPT !.x = feet - FeetOffset]

HasPath(n) == n.path # <<>> /\ n.current_waypoint_idx < Len(n.path)

HasScenePath(n) == n.scene_path # <<>> /\ n.current_scene_step < Len(n.scene_path)

\* The neighbourhood scan that accepts the first point in range, walkable
\* or not.
NearbyStartUnchecked(walkable, start) == start - SearchRadius

\* The straight line from start to goal, whatever lies on it.
astar_straight_line(walkable, start, goal) ==
  [i \in 1..(Abs(goal - start) + 1) |-> IF start <= goal THEN start + (i - 1)
                                                       ELSE start - (i - 1)]

\* Grid search on the strip: the pixels from start to goal when every one of
\* them is walkable, no path otherwise.
astar(walkable, start, goal) ==
  LET lo == IF start <= goal THEN start ELSE goal
      hi == IF start <= goal THEN goal ELSE start
  IN IF \A c \in lo..hi : c \in walkable
     THEN [i \in 1..(hi - lo + 1) |-> IF start <= goal THEN start + (i - 1)
                                                      ELSE start - (i - 1)]
     ELSE <<>>

Walkable(s, avoid_portals) ==
  {c \in 0..(Width - 1) :
     is_walkable(s, c) /\ (avoid_portals => is_portal(s, c) = NoPortal)}

\* The first walkable pixel around start, offsets scanned in ascending order.
NearbyStart(walkable, start) ==
  LET cand == {o \in (0 - SearchRadius)..SearchRadius : (start + o) \in walkable}
  IN IF cand = {} THEN NoPos ELSE start + SetMin(cand)

\* The start pathfind_to hands to the search: the feet when they stand on a
\* walkable point, else the first walkable point nearby; NoPos when the
\* search is not invoked.
pathfind_start(n, avoid_portals) ==
  IF n.mask_system = NoScene THEN NoPos
  ELSE IF _get_feet_position(n) \in Walkable(n.mask_system, avoid_portals)
       THEN _get_feet_position(n)
       ELSE NearbyStart(Walkable(n.mask_system, avoid_portals), _get_feet_position(n))

pathfind_to(n, target, avoid_portals) ==
  IF n.mask_system = NoScene THEN n
  ELSE LET n1 == [n EXCEPT !.destination = target, !.stuck_timer = 0,
                           !.repath_timer = 0]
           PathFrom(walkable, feet, start) ==
             IF start = NoPos THEN n1
             ELSE [(IF feet \in walkable THEN n1
                    ELSE _set_position_from_feet(n1, start))
                     EXCEPT !.path = astar(walkable, start, target),
                            !.current_waypoint_idx = 0]
       IN PathFrom(Walkable(n.mask_system, avoid_portals), _get_feet_position(n),
                   pathfind_start(n, avoid_portals))

\* ------------------------------------------------------------- the world
VARIABLES
  npcs,            \* world registry _npcs: id -> NPC
  npc_locations,   \* world registry _npc_locations: id -> scene name
  active_scene,    \* scene_name of game.stack.top(), TitleScene before play
  scene_npcs,      \* the active scene's npcs list
  active_modal,    \* the active scene has a modal open
  game_time,       \* game clock
  time_accumulator,
  phase,           \* position in the body of the Game.run loop
  iter_idx,        \* index of the running "for npc in self.npcs"
  update_count,    \* NPC.update calls received in the current frame
  events,          \* what the last NPC.update / controller.update did, in order
  actions,         \* ScheduleController.actions
  loop_enabled,
  current_action,  \* index into actions, 0 for None
  is_executing,
  resolved,        \* what _find_next_action returned, when the last step
                   \* was a controller update (0 otherwise, and for None)
  dispatched       \* the entry that controller update started, 0 for none

worldVars == <<npcs, npc_locations, active_scene, scene_npcs, active_modal,
               game_time, time_accumulator, phase, iter_idx, update_count>>
schedVars == <<actions, loop_enabled, current_action, is_executing, resolved,
               dispatched>>
vars == <<worldVars, events, schedVars>>

Ev(k, s, n) == [k |-> k, s |-> s, n |-> n]

\* The part of the world one NPC.update can change.
World(ns, loc, lst, ev) == [npcs |-> ns, loc |-> loc, list |-> lst, ev |-> ev]

SetNpc(w, id, n) == [w EXCEPT !.npcs[id] = n]

Log(w, e) == [w EXCEPT !.ev = Append(w.ev, e)]

InSeq(sq, e) == \E i \in DOMAIN sq : sq[i] = e

\* The departure that leaves the scene's list as it was.
RemoveNothing(sq, e) == sq

\* list.remove: drops the first occurrence.
RemoveFirst(sq, e) ==
  IF ~InSeq(sq, e) THEN sq
  ELSE LET k == SetMin({i \in DOMAIN sq : sq[i] = e})
       IN [i \in 1..(Len(sq) - 1) |-> IF i < k THEN sq[i] ELSE sq[i + 1]]

\* _npc_locations.get(npc_id): NoScene for None.
get_npc_location(loc, id) == IF id \in DOMAIN loc THEN loc[id] ELSE NoScene

\* The registration that also enters an id the registry does not hold.
move_npc_to_scene_unguarded(loc, id, scene) ==
  [i \in DOMAIN loc \cup {id} |-> IF i = id THEN scene ELSE loc[i]]

move_npc_to_scene(loc, id, scene) ==
  IF id \in DOMAIN loc THEN [loc EXCEPT ![id] = scene] ELSE loc

\* Recorded with a registry change: 1 when the destination is the scene on
\* top of the stack at that moment.
ActiveFlag(scene) == IF active_scene = scene THEN 1 ELSE 0

\* A request that stores the target and the route before looking at the route.
pathfind_to_scene_stores_first(w, id, target_scene, target_x) ==
  LET n == w.npcs[id]
      \* the registry's answer, self.scene.scene_name when it has none
      current_scene == IF get_npc_location(w.loc, id) # NoScene
                       THEN get_npc_location(w.loc, id) ELSE n.scene
      \* off-screen: fast-forward one hop with the graph's spawn point
      FastForward(scene_path, n2) ==
        Log(SetNpc(Log([Log(w, Ev("hop", current_scene, scene_path[1].spawn))
                          EXCEPT !.loc = move_npc_to_scene(w.loc, id, scene_path[2].scene)],
                       Ev("registry", scene_path[2].scene,
                          ActiveFlag(scene_path[2].scene))),
                   id, n2),
            Ev("reposition", "feet", _get_feet_position(n2)))
      ToFirstPortal(n1, centre) ==
        IF centre # NoPos THEN SetNpc(w, id, pathfind_to(n1, centre, FALSE))
        ELSE SetNpc(w, id, n1)
      Travel(scene_path, n1) ==
        IF scene_path = <<>> THEN SetNpc(w, id, n1)
        ELSE IF (n.mask_system = NoScene \/ n.scene = NoScene) /\ Len(scene_path) > 1
        THEN FastForward(scene_path,
                         [n1 EXCEPT !.x = scene_path[1].spawn - FeetOffset,
                                    !.scene_path = Tail(scene_path),
                                    !.current_scene_step = 0])
        ELSE IF Len(scene_path) > 1 /\ n.mask_system # NoScene
                /\ scene_path[1].portal # NoPortal
        THEN ToFirstPortal(n1, portal_center(n.mask_system, scene_path[1].portal))
        ELSE SetNpc(w, id, n1)
      Store(scene_path) ==
        Travel(scene_path,
               [n EXCEPT !.target_scene = target_scene, !.scene_path = scene_path,
                         !.current_scene_step = 0])
  IN IF current_scene = NoScene THEN w
     ELSE IF target_scene = current_scene
     THEN IF target_x # NoPos
          THEN SetNpc(w, id, pathfind_to(n, target_x, FALSE))
          ELSE w
     ELSE Store(find_scene_path(current_scene, target_scene))

pathfind_to_scene(w, id, target_scene, target_x) ==
  LET n == w.npcs[id]
      \* the registry's answer, self.scene.scene_name when it has none
      current_scene == IF get_npc_location(w.loc, id) # NoScene
                       THEN get_npc_location(w.loc, id) ELSE n.scene
      \* off-screen: fast-forward one hop with the graph's spawn point
      FastForward(scene_path, n2) ==
        Log(SetNpc(Log([Log(w, Ev("hop", current_scene, scene_path[1].spawn))
                          EXCEPT !.loc = move_npc_to_scene(w.loc, id, scene_path[2].scene)],
                       Ev("registry", scene_path[2].scene,
                          ActiveFlag(scene_path[2].scene))),
                   id, n2),
            Ev("reposition", "feet", _get_feet_position(n2)))
      ToFirstPortal(n1, centre) ==
        IF centre # NoPos THEN SetNpc(w, id, pathfind_to(n1, centre, FALSE))
        ELSE SetNpc(w, id, n1)
      Travel(scene_path, n1) ==
        IF scene_path = <<>> THEN w
        ELSE IF (n.mask_system = NoScene \/ n.scene = NoScene) /\ Len(scene_path) > 1
        THEN FastForward(scene_path,
                         [n1 EXCEPT !.x = scene_path[1].spawn - FeetOffset,
                                    !.scene_path = Tail(scene_path),
                                    !.current_scene_step = 0])
        ELSE IF Len(scene_path) > 1 /\ n.mask_system # NoScene
                /\ scene_path[1].portal # NoPortal
        THEN ToFirstPortal(n1, portal_center(n.mask_system, scene_path[1].portal))
        ELSE SetNpc(w, id, n1)
      Store(scene_path) ==
        Travel(scene_path,
               [n EXCEPT !.target_scene = target_scene, !.scene_path = scene_path,
                         !.current_scene_step = 0])
  IN IF current_scene = NoScene THEN w
     ELSE IF target_scene = current_scene
     THEN IF target_x # NoPos
          THEN SetNpc(w, id, pathfind_to(n, target_x, FALSE))
          ELSE w
     ELSE Store(find_scene_path(current_scene, target_scene))

TargetSceneAlwaysActive(target_scene_name) == TRUE

\* The test "the target scene is currently active" of the transition.
TargetSceneIsActive(target_scene_name) == active_scene = target_scene_name

\* MaskedScene.trigger_npc_portal_transition, called on the NPC's scene.
trigger_npc_portal_transition(w, id, portal_id) ==
  LET \* already listed: refresh references, repair the spawn
      ClearFinal(w3, n5) ==
        SetNpc(w3, id,
               IF n5.scene_path # <<>>
                  /\ n5.current_scene_step >= Len(n5.scene_path) - 1
               THEN [n5 EXCEPT !.scene_path = <<>>, !.target_scene = NoScene]
               ELSE n5)
      RepairSpawn(w3, n4, feet, near) ==
        ClearFinal(w3, IF is_walkable(active_scene, feet) \/ near = NoPos
                       THEN n4 ELSE [n4 EXCEPT !.x = near - FeetOffset])
      Refresh(w3, n4) ==
        RepairSpawn(w3, n4, _get_feet_position(n4),
                    NearbyStart(Walkable(active_scene, FALSE), _get_feet_position(n4)))
      Insert(cfg, n3, w3) ==
        IF TargetSceneIsActive(cfg.to_scene)
        THEN IF ~InSeq(w3.list, id)
             THEN Log(SetNpc([w3 EXCEPT !.list = Append(w3.list, id)], id,
                             [n3 EXCEPT !.scene = active_scene,
                                        !.mask_system = active_scene]),
                      Ev("insert", active_scene, 0))
             ELSE Refresh(w3, [n3 EXCEPT !.scene = active_scene,
                                         !.mask_system = active_scene])
        ELSE SetNpc(w3, id, [n3 EXCEPT !.path = <<>>, !.destination = NoPos,
                                       !.scene = NoScene, !.mask_system = NoScene])
      Reposition(cfg, n3, w2) ==
        Insert(cfg, n3,
               Log(SetNpc(w2, id, n3), Ev("reposition", "feet", _get_feet_position(n3))))
      Register(cfg, n, w1) ==
        Reposition(cfg, [n EXCEPT !.x = cfg.spawn - FeetOffset],
                   Log([w1 EXCEPT !.loc = move_npc_to_scene(w1.loc, id, cfg.to_scene)],
                       Ev("registry", cfg.to_scene, ActiveFlag(cfg.to_scene))))
      Remove(n, self) ==
        IF ~HasPortalConfig(self, portal_id) THEN w
        ELSE Register(PortalConfig(self, portal_id), n,
                      Log([w EXCEPT !.list = RemoveFirst(w.list, id)],
                          Ev("remove", self, 0)))
  IN Remove(w.npcs[id], w.npcs[id].scene)

\* ------------------------------------------------------ behaviour states

IdleState_enter(n, dur) ==
  [n EXCEPT !.time_in_state = 0, !.duration = dur, !.path = <<>>,
            !.current_waypoint_idx = 0, !.destination = NoPos]

IdleState_is_complete(n) == n.time_in_state >= n.duration

\* Twice the distance from pixel c to the centre (left + right) / 2 of the
\* bounding box of a portal region.
PortalDist2(s, pid, c) ==
  LET r == portal_regions(s)[pid]
  IN Abs(2 * c - (SetMin(r) + SetMax(r) + 1))

\* The points one sampling attempt of WanderState.enter can accept.
WanderCandidates(s, feet) ==
  {c \in 0..(Width - 1) :
     /\ Abs(c - feet) >= WanderMinDist
     /\ Abs(c - feet) <= WanderRadius
     /\ is_walkable(s, c)
     /\ is_portal(s, c) = NoPortal
     /\ \A pid \in DOMAIN portal_regions(s) : PortalDist2(s, pid, c) >= 2 * PortalMinDist}

\* precache_all_masks: the scenes whose mask image was loaded at startup.
CachedScenes == AllScenes \ {"S7"}

\* get_mask_for_scene: _mask_cache.get(scene_name).
get_mask_for_scene(s) == IF s \in CachedScenes THEN s ELSE NoScene

\* An entry that leaves the local path alone when the sampling found nothing.
WanderState_enter_keeps_path(w, id, pick) ==
  LET n == [w.npcs[id] EXCEPT !.time_in_state = 0]
      is_offscreen == n.mask_system = NoScene
      mask == IF is_offscreen THEN get_mask_for_scene(get_npc_location(w.loc, id))
              ELSE n.mask_system
      feet == _get_feet_position(n)
      Go(target) ==
        IF target # NoPos
        THEN IF is_offscreen
             THEN SetNpc(w, id, [n EXCEPT !.wander_target = target,
                                          !.warp_time = Abs(target - feet)])
             ELSE SetNpc(Log(w, Ev("path_request", "wander", target)), id,
                         [pathfind_to([n EXCEPT !.wander_target = target], target, TRUE)
                            EXCEPT !.warp_time = 0])
        ELSE SetNpc(w, id, [n EXCEPT !.wander_target = target, !.warp_time = 0])
  IN IF mask = NoScene THEN SetNpc(w, id, [n EXCEPT !.path = <<>>])
     ELSE Go(IF pick \in WanderCandidates(mask, feet) THEN pick ELSE NoPos)

\* pick: the point the random sampling produced, NoPos when all attempts failed.
WanderState_enter(w, id, pick) ==
  LET n == [w.npcs[id] EXCEPT !.time_in_state = 0]
      is_offscreen == n.mask_system = NoScene
      mask == IF is_offscreen THEN get_mask_for_scene(get_npc_location(w.loc, id))
              ELSE n.mask_system
      feet == _get_feet_position(n)
      Go(target) ==
        IF target # NoPos
        THEN IF is_offscreen
             THEN SetNpc(w, id, [n EXCEPT !.wander_target = target,
                                          !.warp_time = Abs(target - feet)])
             ELSE SetNpc(Log(w, Ev("path_request", "wander", target)), id,
                         [pathfind_to([n EXCEPT !.wander_target = target], target, TRUE)
                            EXCEPT !.warp_time = 0])
        ELSE SetNpc(w, id, [n EXCEPT !.wander_target = target, !.path = <<>>,
                                     !.warp_time = 0])
  IN IF mask = NoScene THEN SetNpc(w, id, [n EXCEPT !.path = <<>>])
     ELSE Go(IF pick \in WanderCandidates(mask, feet) THEN pick ELSE NoPos)

\* A completion check that warps as soon as it is asked.
WanderState_is_complete_no_wait(n) ==
  IF n.warp_time > 0
  THEN <<TRUE, IF n.wander_target # NoPos
               THEN [n EXCEPT !.x = n.wander_target - FeetOffset]
               ELSE n>>
  ELSE <<~HasPath(n), n>>

\* is_complete of WanderState: <<result, npc after the call>> (the warp is
\* performed inside the completion check).
WanderState_is_complete(n) ==
  IF n.warp_time > 0
  THEN IF n.time_in_state >= n.warp_time
       THEN <<TRUE, IF n.wander_target # NoPos
                    THEN [n EXCEPT !.x = n.wander_target - FeetOffset]
                    ELSE n>>
       ELSE <<FALSE, n>>
  ELSE <<~HasPath(n), n>>

\* The choice among all the edges of the scene, those onto itself included.
ValidPortalsUnfiltered(current_scene) == connections[current_scene]

ValidPortals(current_scene) ==
  SelectSeq(connections[current_scene], LAMBDA c : c.to_scene # current_scene)

\* pick: the draw of random.choice.
TravelToSceneState_enter(w, id, pick) ==
  LET n == [w.npcs[id] EXCEPT !.time_in_state = 0]
      current_scene == get_npc_location(w.loc, id)
      valid_portals == ValidPortals(current_scene)
      w0 == SetNpc(w, id, n)
  IN IF current_scene = NoScene \/ valid_portals = <<>>
     THEN SetNpc(w, id, [n EXCEPT !.path = <<>>])
     ELSE LET target == valid_portals[((pick - 1) % Len(valid_portals)) + 1].to_scene
          IN pathfind_to_scene(Log(w0, Ev("path_request", target, 0)), id, target, NoPos)

TravelNeverTimesOut(n) == ~HasPath(n) /\ ~HasScenePath(n)

TravelToSceneState_is_complete(n) ==
  (~HasPath(n) /\ ~HasScenePath(n)) \/ n.time_in_state >= MaxTravelTime

\* The exit that appends the NPC and leaves its references as they were.
TravelToSceneState_exit_list_only(w, id) ==
  IF active_scene # get_npc_location(w.loc, id) THEN w
  ELSE IF ~InSeq(w.list, id)
       THEN Log([w EXCEPT !.list = Append(w.list, id)], Ev("attach", active_scene, 0))
       ELSE w

TravelToSceneState_exit(w, id) ==
  IF active_scene # get_npc_location(w.loc, id) THEN w
  ELSE IF ~InSeq(w.list, id)
       THEN Log(SetNpc([w EXCEPT !.list = Append(w.list, id)], id,
                       [w.npcs[id] EXCEPT !.scene = active_scene,
                                          !.mask_system = active_scene]),
                Ev("attach", active_scene, 0))
       ELSE w

\* ------------------------------------------------------- state machine
State_exit(w, id) ==
  LET w1 == Log(w, Ev("exit", w.npcs[id].state, 0))
  IN IF w.npcs[id].state = STATE_TRAVEL THEN TravelToSceneState_exit(w1, id) ELSE w1

State_enter(w, id, name, d) ==
  LET w1 == Log(SetNpc(w, id, [w.npcs[id] EXCEPT !.state = name]), Ev("enter", name, 0))
  IN CASE name = STATE_IDLE -> SetNpc(w1, id, IdleState_enter(w1.npcs[id], d.dur))
       [] name = STATE_WANDER -> WanderState_enter(w1, id, d.wander)
       [] OTHER -> TravelToSceneState_enter(w1, id, d.travel)

set_state_enter_first(w, id, name, d) ==
  IF name \notin States THEN w
  ELSE State_exit(State_enter(w, id, name, d), id)

set_state(w, id, name, d) ==
  IF name \notin States THEN w
  ELSE State_enter(State_exit(w, id), id, name, d)

_is_mid_travel(n) == HasScenePath(n)

\* The comparisons of the decision taken as "up to and including".
_decide_next_state_inclusive(n, rand) ==
  IF n.force_travel_next THEN STATE_TRAVEL
  ELSE IF rand <= WanderProb THEN STATE_WANDER
  ELSE IF rand <= WanderProb + TravelProb THEN STATE_TRAVEL
  ELSE STATE_IDLE

\* The decision without the force flag.
_decide_next_state_unforced(n, rand) ==
  LET wander_p == IF _is_mid_travel(n) THEN (WanderProb * TravelMult) \div 100
                  ELSE WanderProb
      travel_p == IF _is_mid_travel(n) THEN 100 - wander_p ELSE TravelProb
  IN IF rand < wander_p THEN STATE_WANDER
     ELSE IF rand < wander_p + travel_p THEN STATE_TRAVEL
     ELSE STATE_IDLE

\* rand: the draw of random.random(), in percent.
_decide_next_state(n, rand) ==
  LET wander_p == IF _is_mid_travel(n) THEN (WanderProb * TravelMult) \div 100
                  ELSE WanderProb
      travel_p == IF _is_mid_travel(n) THEN 100 - wander_p ELSE TravelProb
  IN IF n.force_travel_next THEN STATE_TRAVEL
     ELSE IF rand < wander_p THEN STATE_WANDER
     ELSE IF rand < wander_p + travel_p THEN STATE_TRAVEL
     ELSE STATE_IDLE

is_complete(n) ==
  CASE n.state = STATE_IDLE -> <<IdleState_is_complete(n), n>>
    [] n.state = STATE_WANDER -> WanderState_is_complete(n)
    [] OTHER -> <<TravelToSceneState_is_complete(n), n>>

\* State.update: time_in_state += dt.  The timer is only ever compared with
\* thresholds of at most TimeCap, so it is kept saturated there.
Tick(t) == IF t + dt >= TimeCap THEN TimeCap ELSE t + dt

StateMachine_update(w, id, d) ==
  LET n0 == w.npcs[id]
      Ticked(done) ==
        IF done[1]
        THEN set_state(SetNpc(Log(Log(SetNpc(w, id, done[2]), Ev("tick", n0.state, 0)),
                                  Ev("complete", n0.state,
                                     IF done[2].force_travel_next THEN 1 ELSE 0)),
                              id, [done[2] EXCEPT !.force_travel_next = FALSE]),
                       id, _decide_next_state(done[2], d.rand), d)
        ELSE Log(SetNpc(w, id, done[2]), Ev("tick", n0.state, 0))
  IN Ticked(is_complete([n0 EXCEPT !.time_in_state = Tick(n0.time_in_state)]))

\* ------------------------------------------------------------ NPC.update
Toward(feet, goal) == IF goal > feet THEN feet + 1 ELSE feet - 1

ClearPath(n) == [n EXCEPT !.path = <<>>, !.current_waypoint_idx = 0]

FinalSceneKeepsScenePath(n) == ClearPath(n)

\* _follow_path when the pending hop names no portal: the journey is over.
FinalSceneReached(n) ==
  ClearPath([n EXCEPT !.scene_path = <<>>, !.target_scene = NoScene])

\* speed * dt is one pixel, and the waypoint thresholds are below one pixel.
_follow_path(n) ==
  LET feet == _get_feet_position(n)
  IN IF n.current_waypoint_idx >= Len(n.path)
     THEN IF HasScenePath(n)
          THEN IF n.scene_path[n.current_scene_step + 1].portal = NoPortal
               THEN FinalSceneReached(n)
               ELSE IF n.mask_system = NoScene THEN ClearPath(n)
               ELSE n  \* the call of point_in_portal raises, see _follow_path_raises
          ELSE ClearPath(n)
     ELSE LET target == n.path[n.current_waypoint_idx + 1]
              distance == Abs(target - feet)
          IN IF distance = 0
             THEN [n EXCEPT !.current_waypoint_idx = n.current_waypoint_idx + 1]
             ELSE IF distance <= 1
                  THEN [_set_position_from_feet(n, target) EXCEPT
                          !.current_waypoint_idx = n.current_waypoint_idx + 1]
                  ELSE _set_position_from_feet(n, Toward(feet, target))

\* _follow_path reaches self.mask_system.point_in_portal(...): the local path
\* is finished, a hop through a portal is pending and the NPC has a mask.
\* MaskCollisionSystem defines no point_in_portal, so the call raises
\* AttributeError, which nothing between NPC.update and Game.run catches.
_follow_path_raises(n) ==
  /\ n.current_waypoint_idx >= Len(n.path)
  /\ HasScenePath(n)
  /\ n.scene_path[n.current_scene_step + 1].portal # NoPortal
  /\ n.mask_system # NoScene

\* The portal check of NPC.update.
PortalCheck(w, id) ==
  LET n == w.npcs[id]
      Advance(w1) ==
        SetNpc(w1, id, [w1.npcs[id] EXCEPT
                          !.current_scene_step = n.current_scene_step + 1])
      Drop(w1) ==
        SetNpc(w1, id, [w1.npcs[id] EXCEPT !.path = <<>>, !.destination = NoPos])
      Entered(portal_id) ==
        IF portal_id = NoPortal THEN w
        ELSE IF HasScenePath(n)
        THEN IF n.scene_path[n.current_scene_step + 1].portal = portal_id \/ ~HasPath(n)
             THEN Advance(trigger_npc_portal_transition(
                            Log(w, Ev("portal", n.scene, portal_id)), id, portal_id))
             ELSE w
        ELSE Drop(trigger_npc_portal_transition(
                    Log(w, Ev("portal", n.scene, portal_id)), id, portal_id))
  IN IF n.mask_system = NoScene THEN w
     ELSE Entered(is_portal(n.mask_system, _get_feet_position(n)))

\* Stuck detection that only counts, with the periodic re-pathfinding.
RepathCheck_stuck_counts_only(n, is_moving) ==
  LET current_pos == _get_feet_position(n)
      Periodic(n2) ==
        IF n2.repath_timer >= RepathInterval
        THEN IF n2.destination # NoPos
             THEN pathfind_to([n2 EXCEPT !.repath_timer = 0], n2.destination, FALSE)
             ELSE [n2 EXCEPT !.repath_timer = 0]
        ELSE n2
      Stuck(n1) ==
        Periodic([n1 EXCEPT !.last_position = current_pos,
                            !.repath_timer = n1.repath_timer + dt])
  IN IF ~(is_moving /\ n.destination # NoPos) THEN n
     ELSE Stuck(IF current_pos = n.last_position
                THEN [n EXCEPT !.stuck_timer = n.stuck_timer + dt]
                ELSE [n EXCEPT !.stuck_timer = 0])

\* Stuck detection and periodic re-pathfinding.
RepathCheck(n, is_moving) ==
  LET current_pos == _get_feet_position(n)
      Periodic(n2) ==
        IF n2.repath_timer >= RepathInterval
        THEN IF n2.destination # NoPos
             THEN pathfind_to([n2 EXCEPT !.repath_timer = 0], n2.destination, FALSE)
             ELSE [n2 EXCEPT !.repath_timer = 0]
        ELSE n2
      Stuck(n1) ==
        Periodic([n1 EXCEPT !.last_position = current_pos,
                            !.repath_timer = n1.repath_timer + dt])
  IN IF ~(is_moving /\ n.destination # NoPos) THEN n
     ELSE Stuck(IF current_pos = n.last_position
                THEN IF n.stuck_timer + dt > StuckLimit
                     THEN [pathfind_to(n, n.destination, FALSE) EXCEPT !.stuck_timer = 0]
                     ELSE [n EXCEPT !.stuck_timer = n.stuck_timer + dt]
                ELSE [n EXCEPT !.stuck_timer = 0])

\* d: the random draws this update may consume.
NPC_update(w, id, d) ==
  LET Follow(w2, n3) ==
        IF n3.path # <<>> \/ HasScenePath(n3)
        THEN IF _follow_path_raises(n3)
             THEN Log(SetNpc(w2, id, n3), Ev("raise", "AttributeError", 0))
             ELSE SetNpc(w2, id, _follow_path(n3))
        ELSE SetNpc(w2, id, n3)
      Moving(w2) ==
        Follow(w2, RepathCheck(w2.npcs[id], HasPath(w2.npcs[id])))
  IN Moving(PortalCheck(StateMachine_update(w, id, d), id))

\* The update ended in an uncaught exception: the game loop is left.
Raised(w) == w.ev # <<>> /\ w.ev[Len(w.ev)].k = "raise"

\* The draws one update can consume: the transition draw (percent) with the
\* draw of the state it leads to.  0 selects Wander; 70 selects Travel; 99
\* selects Idle, or Travel while a scene path is pending.
MkDraw(rand, dur, wander, travel) ==
  [rand |-> rand, dur |-> dur, wander |-> wander, travel |-> travel]

Draws ==
  {MkDraw(0, IdleMin, p, 1) : p \in (0..(Width - 1)) \cup {NoPos}}
  \cup {MkDraw(70, IdleMin, NoPos, t) : t \in 1..2}
  \cup {MkDraw(99, du, NoPos, t) : du \in IdleMin..IdleMax, t \in 1..2}

\* ----------------------------------------------------------- scene load
\* The snap of _load_scene_npcs: rings of growing radius, offsets ascending.
SnapToWalkable(s, feet) ==
  LET rings == {r \in 1..Width : \E o \in (0 - r)..r : is_walkable(s, feet + o)}
  IN IF rings = {} THEN NoPos
     ELSE LET r == SetMin(rings)
          IN feet + SetMin({o \in (0 - r)..r : is_walkable(s, feet + o)})

LoadOneNpc(w, id, scene_name) ==
  LET lst == IF InSeq(w.list, id) THEN w.list ELSE Append(w.list, id)
      ToPortal(n1, centre) ==
        IF centre # NoPos THEN pathfind_to(n1, centre, FALSE) ELSE n1
      Resume(n1) ==
        IF HasScenePath(n1)
           /\ n1.scene_path[n1.current_scene_step + 1].scene = scene_name
        THEN IF n1.current_scene_step + 1 < Len(n1.scene_path)
             THEN IF n1.scene_path[n1.current_scene_step + 1].portal # NoPortal
                  THEN ToPortal(n1, portal_center(scene_name,
                                   n1.scene_path[n1.current_scene_step + 1].portal))
                  ELSE n1
             ELSE [n1 EXCEPT !.scene_path = <<>>]
        ELSE n1
      Snap(n0, feet, snap) ==
        Resume(IF is_walkable(scene_name, feet) \/ snap = NoPos THEN n0
               ELSE _set_position_from_feet(n0, snap))
      Attach(n0) ==
        Snap(n0, _get_feet_position(n0),
             SnapToWalkable(scene_name, _get_feet_position(n0)))
  IN SetNpc([w EXCEPT !.list = lst], id,
            Attach([w.npcs[id] EXCEPT !.scene = scene_name, !.mask_system = scene_name]))

RECURSIVE LoadNpcs(_, _, _)
LoadNpcs(w, order, scene_name) ==
  IF order = <<>> THEN w
  ELSE LoadNpcs(IF get_npc_location(w.loc, Head(order)) = scene_name
                THEN LoadOneNpc(w, Head(order), scene_name) ELSE w,
                Tail(order), scene_name)

\* A new scene object: its npcs list starts empty.
_load_scene_npcs(scene_name) ==
  LoadNpcs(World(npcs, npc_locations, <<>>, <<>>), NpcOrder, scene_name)

\* ------------------------------------------------------------ game loop
\* The game clock of Game.run: <<game_time, time_accumulator>> after a frame.
ClockAfter(t, acc) ==
  IF acc + dt >= ClockTicks
  THEN <<IF t + ClockStep >= DayEnd THEN DayStart ELSE t + ClockStep, 0>>
  ELSE <<t, acc + dt>>

InitialScene == "S1"
InitialFeet == 0

Init ==
  /\ npcs \in [NpcIds -> {[NewNPC(InitialFeet) EXCEPT !.duration = du] :
                            du \in IdleMin..IdleMax}]
  /\ npc_locations = [id \in NpcIds |-> InitialScene]
  /\ active_scene = TitleScene
  /\ scene_npcs = <<>>
  /\ active_modal = FALSE
  /\ game_time = DayStart
  /\ time_accumulator = 0
  /\ phase = "events"
  /\ iter_idx = 0
  /\ update_count = [id \in NpcIds |-> 0]
  /\ events = <<>>
  /\ actions = <<>>
  /\ loop_enabled = FALSE
  /\ current_action = 0
  /\ is_executing = FALSE
  /\ resolved = 0
  /\ dispatched = 0

Commit(w) ==
  /\ npcs' = w.npcs
  /\ npc_locations' = w.loc
  /\ scene_npcs' = w.list
  /\ events' = w.ev

\* The log of a step made after remove_npc took an NPC out of the registry:
\* the removal stays at the head of the log.
RemovalLog ==
  IF events # <<>> /\ events[1].k = "remove_npc" THEN <<events[1]>> ELSE <<>>

\* pygame events of the frame: nothing of interest happens.
NoEvent ==
  /\ phase = "events"
  /\ phase' = "scene"
  /\ iter_idx' = 0
  /\ UNCHANGED <<npcs, npc_locations, active_scene, scene_npcs, active_modal,
                 game_time, time_accumulator, update_count, events, schedVars>>

\* K_p: force every NPC to travel on its next state change.
KeyP ==
  /\ phase = "events"
  /\ npcs' = [id \in NpcIds |-> [npcs[id] EXCEPT !.force_travel_next = TRUE]]
  /\ phase' = "scene"
  /\ iter_idx' = 0
  /\ UNCHANGED <<npc_locations, active_scene, scene_npcs, active_modal,
                 game_time, time_accumulator, update_count, events, schedVars>>

\* LoadGameScene._load_selected: the run state is reset and the saved room is
\* pushed as a MaskedScene, whose constructor loads the NPCs registered there.
_load_selected ==
  /\ phase = "events"
  /\ active_scene = TitleScene
  /\ active_scene' = InitialScene
  /\ Commit(_load_scene_npcs(InitialScene))
  /\ phase' = "scene"
  /\ iter_idx' = 0
  /\ UNCHANGED <<active_modal, game_time, time_accumulator, update_count, schedVars>>

\* The player opens or closes a modal of the active scene.
ToggleModal ==
  /\ phase = "events"
  /\ active_scene \in Scenes
  /\ active_modal' = ~active_modal
  /\ phase' = "scene"
  /\ iter_idx' = 0
  /\ UNCHANGED <<npcs, npc_locations, active_scene, scene_npcs,
                 game_time, time_accumulator, update_count, events, schedVars>>

\* One iteration of "for npc in self.npcs: npc.update(dt)" in MaskedScene.update.
SceneUpdateNpc ==
  /\ phase = "scene"
  /\ active_scene \in Scenes
  /\ ~active_modal
  /\ iter_idx < Len(scene_npcs)
  /\ \E d \in Draws :
       \E w \in {NPC_update(World(npcs, npc_locations, scene_npcs, RemovalLog),
                             scene_npcs[iter_idx + 1], d)} :
         /\ Commit(w)
         /\ phase' = IF Raised(w) THEN "crashed" ELSE phase
  /\ update_count' = [update_count EXCEPT ![scene_npcs[iter_idx + 1]] = @ + 1]
  /\ iter_idx' = iter_idx + 1
  /\ UNCHANGED <<active_scene, active_modal, game_time, time_accumulator, schedVars>>

\* The rest of top.update(dt): nothing to update (title screen, modal open,
\* loop finished) and the player stays in the scene.
SceneUpdateEnd ==
  /\ phase = "scene"
  /\ active_scene \in Scenes /\ ~active_modal => iter_idx >= Len(scene_npcs)
  /\ phase' = "clock"
  /\ UNCHANGED <<npcs, npc_locations, active_scene, scene_npcs, active_modal,
                 game_time, time_accumulator, iter_idx, update_count, events,
                 schedVars>>

\* The player walks into a configured portal: _enter_portal replaces the
\* scene on the stack.
PlayerEntersPortal ==
  /\ phase = "scene"
  /\ active_scene \in Scenes /\ ~active_modal /\ iter_idx >= Len(scene_npcs)
  /\ \E i \in DOMAIN PORTAL_MAP[active_scene] :
       LET cfg == PORTAL_MAP[active_scene][i]
       IN /\ cfg.portal \in DOMAIN portal_regions(active_scene)
          /\ active_scene' = cfg.to_scene
          /\ Commit(_load_scene_npcs(cfg.to_scene))
  /\ phase' = "clock"
  /\ UNCHANGED <<active_modal, game_time, time_accumulator, iter_idx, update_count,
                 schedVars>>

\* The game clock.
ClockAdvance ==
  /\ phase = "clock"
  /\ game_time' = ClockAfter(game_time, time_accumulator)[1]
  /\ time_accumulator' = ClockAfter(game_time, time_accumulator)[2]
  /\ phase' = "npcs"
  /\ iter_idx' = 0
  /\ UNCHANGED <<npcs, npc_locations, active_scene, scene_npcs, active_modal,
                 update_count, events, schedVars>>

\* One iteration of update_all_npcs, which walks _npcs.items(): an id that
\* remove_npc deleted is not visited.
UpdateAllNpc ==
  /\ phase = "npcs"
  /\ iter_idx < Len(NpcOrder)
  /\ \E d \in Draws :
       \E w \in {IF NpcOrder[iter_idx + 1] \in DOMAIN npc_locations
                 THEN NPC_update(World(npcs, npc_locations, scene_npcs, RemovalLog),
                                 NpcOrder[iter_idx + 1], d)
                 ELSE World(npcs, npc_locations, scene_npcs, RemovalLog)} :
         /\ Commit(w)
         /\ phase' = IF Raised(w) THEN "crashed"
                     ELSE IF iter_idx + 1 >= Len(NpcOrder) THEN "draw" ELSE "npcs"
  /\ update_count' = [update_count EXCEPT ![NpcOrder[iter_idx + 1]] =
                        IF NpcOrder[iter_idx + 1] \in DOMAIN npc_locations
                        THEN @ + 1 ELSE @]
  /\ iter_idx' = iter_idx + 1
  /\ UNCHANGED <<active_scene, active_modal, game_time, time_accumulator, schedVars>>

\* screen.fill / stack.draw / display.flip: the frame is over.
DrawFrame ==
  /\ phase = "draw"
  /\ phase' = "events"
  /\ update_count' = [id \in NpcIds |-> 0]
  /\ UNCHANGED <<npcs, npc_locations, active_scene, scene_npcs, active_modal,
                 game_time, time_accumulator, iter_idx, events, schedVars>>

Next ==
  \/ NoEvent
  \/ KeyP
  \/ _load_selected
  \/ ToggleModal
  \/ SceneUpdateNpc
  \/ SceneUpdateEnd
  \/ PlayerEntersPortal
  \/ ClockAdvance
  \/ UpdateAllNpc
  \/ DrawFrame

Spec == Init /\ [][Next]_vars

\* ---------------------------------------------------- schedule controller
\* A schedule file entry: "time" is the text HH:MM, kept as <<HH, MM>>; the
\* other keys are the entry's parameters (NoScene / NoPos when absent).
ScheduleEntry(time, action, scene, x, target_scene) ==
  [time |-> time, action |-> action, scene |-> scene, x |-> x,
   target_scene |-> target_scene]

TimeStrs == {<<8, 0>>, <<8, 15>>}

ScheduleEntries ==
  {ScheduleEntry(t, "idle", NoScene, NoPos, NoScene) : t \in TimeStrs}
  \cup {ScheduleEntry(<<8, 15>>, "move_to", "S2", 1, NoScene),
        ScheduleEntry(<<8, 0>>, "navigate_to_scene", NoScene, NoPos, "S3"),
        ScheduleEntry(<<0, 0>>, "loop", NoScene, NoPos, NoScene)}

\* The "schedule" lists of the files a controller is built from.
ScheduleFiles ==
  UNION {[1..len -> ScheduleEntries] : len \in 1..MaxSchedLen}

\* ScheduleAction.__init__: minutes since midnight from HH:MM.
ScheduleAction(entry) ==
  [time_minutes |-> entry.time[1] * 60 + entry.time[2],
   action_type |-> entry.action,
   scene |-> entry.scene, x |-> entry.x, target_scene |-> entry.target_scene]

\* list.sort(key=time_minutes): stable, so an insertion after the last entry
\* that is not later.
RECURSIVE SortedInsert(_, _)
SortedInsert(sorted, a) ==
  IF sorted = <<>> THEN <<a>>
  ELSE IF sorted[Len(sorted)].time_minutes <= a.time_minutes
       THEN Append(sorted, a)
       ELSE Append(SortedInsert(SubSeq(sorted, 1, Len(sorted) - 1), a),
                   sorted[Len(sorted)])

RECURSIVE SortFrom(_, _)
SortFrom(acts, sorted) ==
  IF acts = <<>> THEN sorted
  ELSE SortFrom(Tail(acts), SortedInsert(sorted, Head(acts)))

KeepFileOrder(acts) == acts

SortByTime(acts) == SortFrom(acts, <<>>)

IsLoopEntry(e) == e.action = "loop"

IsActionEntry(e) == e.action # "loop"

\* _load_schedule: <<actions, loop_enabled>> of a schedule list.
_load_schedule(schedule_data) ==
  LET acts == SelectSeq(schedule_data, IsActionEntry)
  IN <<SortByTime([k \in DOMAIN acts |-> ScheduleAction(acts[k])]),
       SelectSeq(schedule_data, IsLoopEntry) # <<>>>>

\* The scan of _find_next_action: the index of the last entry that is due,
\* stopping at the first entry that is not; 0 stands for None.
RECURSIVE ScanActions(_, _, _)
ScanActions(current_time, k, active_action) ==
  IF k > Len(actions) THEN active_action
  ELSE IF actions[k].time_minutes <= current_time
       THEN ScanActions(current_time, k + 1, k)
       ELSE active_action

_find_next_action_no_wrap(current_time) ==
  IF actions = <<>> THEN 0
  ELSE ScanActions(current_time, 1, 0)

_find_next_action(current_time) ==
  IF actions = <<>> THEN 0
  ELSE LET active_action == ScanActions(current_time, 1, 0)
       IN IF active_action = 0 /\ loop_enabled THEN 1 ELSE active_action

\* The completion test that treats idle like a movement: done once the NPC
\* has no local path.
_is_action_complete_idle_ends(n) ==
  IF current_action = 0 \/ ~is_executing THEN TRUE
  ELSE ~HasPath(n)

_is_action_complete(n) ==
  IF current_action = 0 \/ ~is_executing THEN TRUE
  ELSE IF actions[current_action].action_type = "idle" THEN FALSE
  ELSE IF actions[current_action].action_type \in {"move_to", "navigate_to_scene"}
       THEN ~HasPath(n)
       ELSE TRUE

\* The effect of _start_action on the NPC and the registry.
_start_action(w, id, action) ==
  LET n == w.npcs[id]
      w1 == Log(w, Ev("dispatch", action.action_type, 0))
  IN CASE action.action_type = "idle" ->
            SetNpc(w1, id, [n EXCEPT !.path = <<>>, !.current_waypoint_idx = 0,
                                     !.destination = NoPos, !.scene_path = <<>>,
                                     !.target_scene = NoScene])
       [] action.action_type = "move_to" ->
            IF action.x = NoPos THEN w1
            ELSE IF action.scene # NoScene /\ action.scene # n.scene
                 THEN pathfind_to_scene(w1, id, action.scene, action.x)
                 ELSE SetNpc(w1, id, pathfind_to(n, action.x, FALSE))
       [] action.action_type = "navigate_to_scene" ->
            IF action.target_scene = NoScene THEN w1
            ELSE pathfind_to_scene(w1, id, action.target_scene, action.x)
       [] OTHER -> w1

StartsWhenNotExecuting(next_action) ==
  next_action # 0 /\ (next_action # current_action /\ ~is_executing)

\* The test of ScheduleController.update that preempts the current action.
StartsAction(next_action) == next_action # 0 /\ next_action # current_action

ScheduledNpc == "henry"

\* The draws left to the behaviour state machine of a scheduled NPC.
SchedDraws == {MkDraw(99, IdleMax, NoPos, 1)}

\* A controller built for henry from a schedule file, the NPC in its first
\* scene, which is on screen or not.
SchedInit ==
  /\ \E f \in ScheduleFiles :
       /\ actions = _load_schedule(f)[1]
       /\ loop_enabled = _load_schedule(f)[2]
  /\ current_action = 0
  /\ is_executing = FALSE
  /\ resolved = 0
  /\ dispatched = 0
  /\ active_scene \in {"S1", "S2"}
  /\ LET w == LoadNpcs(World([id \in NpcIds |-> NewNPC(InitialFeet)],
                             [id \in NpcIds |-> InitialScene], <<>>, <<>>),
                       NpcOrder, active_scene)
     IN /\ npcs = w.npcs
        /\ npc_locations = w.loc
        /\ scene_npcs = w.list
  /\ active_modal = FALSE
  /\ game_time = DayStart
  /\ time_accumulator = 0
  /\ phase = "schedule"
  /\ iter_idx = 0
  /\ update_count = [id \in NpcIds |-> 0]
  /\ events = <<>>

\* ScheduleController.update.
SchedTick ==
  LET next_action == _find_next_action(game_time)
      n == npcs[ScheduledNpc]
      w == World(npcs, npc_locations, scene_npcs, <<Ev("sched", "update", game_time)>>)
  IN /\ phase = "schedule"
     /\ resolved' = next_action
     /\ IF actions = <<>>
        THEN /\ Commit(w)
             /\ dispatched' = 0
             /\ UNCHANGED <<current_action, is_executing>>
        ELSE IF StartsAction(next_action)
        THEN /\ Commit(_start_action(
                  IF is_executing /\ current_action # 0 /\ ~_is_action_complete(n)
                     /\ actions[current_action].action_type
                          \in {"move_to", "navigate_to_scene"}
                  THEN Log(w, Ev("warning", actions[current_action].action_type, 0))
                  ELSE w,
                  ScheduledNpc, actions[next_action]))
             /\ current_action' = next_action
             /\ is_executing' = TRUE
             /\ dispatched' = next_action
        ELSE /\ IF is_executing /\ _is_action_complete(n)
                THEN /\ is_executing' = FALSE
                     /\ Commit(Log(w, Ev("finished", actions[current_action].action_type, 0)))
                ELSE /\ is_executing' = is_executing
                     /\ Commit(w)
             /\ dispatched' = 0
             /\ UNCHANGED current_action
     /\ UNCHANGED <<actions, loop_enabled, active_scene, active_modal, game_time,
                    time_accumulator, phase, iter_idx, update_count>>

\* NPC.update of the scheduled NPC, its draws taken from D.
SchedNpcUpdateWith(D) ==
  /\ phase = "schedule"
  /\ \E d \in D :
       \E w \in {NPC_update(World(npcs, npc_locations, scene_npcs, <<>>),
                             ScheduledNpc, d)} :
         /\ Commit(w)
         /\ phase' = IF Raised(w) THEN "crashed" ELSE phase
  /\ resolved' = 0
  /\ dispatched' = 0
  /\ UNCHANGED <<active_scene, active_modal, game_time, time_accumulator,
                 iter_idx, update_count, actions, loop_enabled, current_action,
                 is_executing>>

SchedNpcUpdate == SchedNpcUpdateWith(SchedDraws)

\* The game clock moves on.
SchedClock ==
  /\ phase = "schedule"
  /\ game_time' = ClockAfter(game_time, time_accumulator)[1]
  /\ time_accumulator' = ClockAfter(game_time, time_accumulator)[2]
  /\ events' = <<>>
  /\ resolved' = 0
  /\ dispatched' = 0
  /\ UNCHANGED <<npcs, npc_locations, active_scene, scene_npcs, active_modal, phase,
                 iter_idx, update_count, actions, loop_enabled, current_action,
                 is_executing>>

SchedNext ==
  \/ SchedTick
  \/ SchedNpcUpdate
  \/ SchedClock

SpecSched == SchedInit /\ [][SchedNext]_vars

\* -------------------------------------------------------- save and load
\* snapshot_world_state: what a save keeps of each NPC (direction and type
\* do not enter the model).
snapshot_world_state(ns, loc) ==
  [id \in DOMAIN ns |->
     [x |-> ns[id].x, scene |-> IF id \in DOMAIN loc THEN loc[id] ELSE NoScene]]

\* initialize_world, called by Game.reset_run_state before a save is applied.
initialize_world ==
  World([id \in NpcIds |-> NewNPC(InitialFeet)],
        [id \in NpcIds |-> InitialScene], <<>>, <<>>)

\* Entries for ids the registry holds no NPC for are skipped; a location is
\* written, under the id of the entry, when the entry names a scene.
apply_world_state(state, w) ==
  LET located == {id \in DOMAIN w.npcs \cap DOMAIN state : state[id].scene # NoScene}
  IN [w EXCEPT
        !.npcs = [id \in DOMAIN w.npcs |->
                    IF id \in DOMAIN state THEN [w.npcs[id] EXCEPT !.x = state[id].x]
                    ELSE w.npcs[id]],
        !.loc = [id \in DOMAIN w.loc \cup located |->
                   IF id \in located THEN state[id].scene ELSE w.loc[id]]]

\* The registry after the current world is saved and the save is loaded.
SavedAndLoaded ==
  apply_world_state(snapshot_world_state(npcs, npc_locations), initialize_world)

\* ------------------------------------------- a scheduled journey, player free
\* The player walks into a configured portal while the schedule runs.
SchedPlayerEntersPortal ==
  /\ phase = "schedule"
  /\ \E i \in DOMAIN PORTAL_MAP[active_scene] :
       LET cfg == PORTAL_MAP[active_scene][i]
       IN /\ cfg.portal \in DOMAIN portal_regions(active_scene)
          /\ active_scene' = cfg.to_scene
          /\ Commit(_load_scene_npcs(cfg.to_scene))
  /\ resolved' = 0
  /\ dispatched' = 0
  /\ UNCHANGED <<active_modal, game_time, time_accumulator, phase, iter_idx,
                 update_count, actions, loop_enabled, current_action, is_executing>>

\* henry's schedule sends him to another scene.
JourneyInit ==
  /\ SchedInit
  /\ Len(actions) = 1
  /\ actions[1].action_type = "navigate_to_scene"

\* The draws of the journey: as in the schedule runs, and the draw that selects
\* Wander with none of its samples accepted.
JourneyDraws == SchedDraws \cup {MkDraw(0, IdleMin, NoPos, 1)}

JourneyNpcUpdate == SchedNpcUpdateWith(JourneyDraws)

JourneyNext ==
  \/ SchedTick
  \/ JourneyNpcUpdate
  \/ SchedClock
  \/ SchedPlayerEntersPortal

\* Game.run never stops advancing the clock while the process lives.
SpecJourney ==
  /\ JourneyInit
  /\ [][JourneyNext]_vars
  /\ WF_vars(SchedClock)

\* The last step was an NPC.update / a ScheduleController.update: both start
\* the step's log, which every other step clears.
NpcUpdated == events # <<>> /\ events[1].k = "tick"

ControllerUpdated == events # <<>> /\ events[1].k = "sched"

\* Every frame of Game.run updates the controller and the NPC for as long as
\* the process lives.
FramesKeepComing ==
  /\ []<>(phase = "crashed" \/ NpcUpdated)
  /\ []<>(phase = "crashed" \/ ControllerUpdated)

\* ------------------------------------------- the decision, draw by draw
\* random.random() in hundredths: 0 .. Percent - 1.
Percent == 100

\* An NPC whose state has just completed: the force flag set or not, a
\* scene path pending or not.
DecideInit ==
  /\ npcs \in [NpcIds ->
       {[NewNPC(InitialFeet) EXCEPT !.force_travel_next = f, !.scene_path = sp]
          : f \in BOOLEAN,
            sp \in {<<>>, find_scene_path("S1", "S2")}}]
  /\ npc_locations = [id \in NpcIds |-> InitialScene]
  /\ active_scene = InitialScene
  /\ scene_npcs = <<>>
  /\ active_modal = FALSE
  /\ game_time = DayStart
  /\ time_accumulator = 0
  /\ phase = "decide"
  /\ iter_idx = 0
  /\ update_count = [id \in NpcIds |-> 0]
  /\ events = <<>>
  /\ actions = <<>>
  /\ loop_enabled = FALSE
  /\ current_action = 0
  /\ is_executing = FALSE
  /\ resolved = 0
  /\ dispatched = 0

\* StateMachine._decide_next_state with the draw rand: the choice is logged
\* with its draw, the force flag is consumed.
DecideNextState ==
  /\ phase = "decide"
  /\ \E id \in NpcIds, rand \in 0..(Percent - 1) :
       /\ events' = <<Ev("decide", _decide_next_state(npcs[id], rand), rand)>>
       /\ npcs' = [npcs EXCEPT ![id].force_travel_next = FALSE]
  /\ UNCHANGED <<npc_locations, active_scene, scene_npcs, active_modal, game_time,
                 time_accumulator, phase, iter_idx, update_count, schedVars>>

SpecDecide == DecideInit /\ [][DecideNextState]_vars

\* --------------------------------------------- the scene graph, by query
\* Portals a scene's PORTAL_MAP may hold.
MaxPortals == 2

\* The PORTAL_MAPs of the scenes, drawn when the graph is populated: portal k
\* of a scene leads to some scene.
PortalMaps ==
  [Scenes -> UNION {[1..len -> Scenes] : len \in 0..MaxPortals}]

PortalMapOf(targets, s) ==
  [k \in DOMAIN targets[s] |->
     [portal |-> k - 1, to_scene |-> targets[s][k], spawn |-> 0]]

GraphInit ==
  /\ npcs = [id \in NpcIds |-> NewNPC(InitialFeet)]
  /\ npc_locations = [id \in NpcIds |-> InitialScene]
  /\ active_scene = TitleScene
  /\ scene_npcs = <<>>
  /\ active_modal = FALSE
  /\ game_time = DayStart
  /\ time_accumulator = 0
  /\ phase = "graph"
  /\ iter_idx = 0
  /\ update_count = [id \in NpcIds |-> 0]
  /\ \E targets \in PortalMaps :
       events = <<Ev("populate", <<[s \in Scenes |-> PortalMapOf(targets, s)]>>, <<>>)>>
  /\ actions = <<>>
  /\ loop_enabled = FALSE
  /\ current_action = 0
  /\ is_executing = FALSE
  /\ resolved = 0
  /\ dispatched = 0

\* The graph populated from the scenes' PORTAL_MAPs is asked for a path; the
\* log keeps the PORTAL_MAPs with the query, and the answer.
FindScenePath ==
  /\ phase = "graph"
  /\ \E from \in Scenes, to \in Scenes :
       \E maps \in {events[1].s[1]} :
         events' = <<Ev("find_scene_path", <<maps, from, to>>,
                        ScenePathSearch(populate_scene_graph_from_registry(maps),
                                        from, to))>>
  /\ UNCHANGED <<npcs, npc_locations, active_scene, scene_npcs, active_modal,
                 game_time, time_accumulator, phase, iter_idx, update_count,
                 schedVars>>

SpecGraph == GraphInit /\ [][FindScenePath]_vars

\* ------------------------------------------- local pathfinding, by request
\* An NPC attached to a scene or to none, its feet on any pixel of the strip
\* or one pixel off it (where a spawn or a warp may have put it).
PathfindInit ==
  /\ npcs \in [NpcIds ->
       {[NewNPC(feet) EXCEPT !.scene = m, !.mask_system = m]
          : feet \in (0 - 1)..Width, m \in Scenes \cup {NoScene}}]
  /\ npc_locations = [id \in NpcIds |-> InitialScene]
  /\ active_scene = InitialScene
  /\ scene_npcs = <<>>
  /\ active_modal = FALSE
  /\ game_time = DayStart
  /\ time_accumulator = 0
  /\ phase = "pathfind"
  /\ iter_idx = 0
  /\ update_count = [id \in NpcIds |-> 0]
  /\ events = <<>>
  /\ actions = <<>>
  /\ loop_enabled = FALSE
  /\ current_action = 0
  /\ is_executing = FALSE
  /\ resolved = 0
  /\ dispatched = 0

\* NPC.pathfind_to(target, avoid_portals).  The log keeps the request (the
\* feet before the call, avoid_portals) and the start the search was invoked
\* with ("astar"), or that it was not invoked ("no_search").
PathfindTo ==
  /\ phase = "pathfind"
  /\ \E id \in NpcIds, target \in 0..(Width - 1), avoid_portals \in BOOLEAN :
       /\ npcs' = [npcs EXCEPT ![id] = pathfind_to(npcs[id], target, avoid_portals)]
       /\ events' =
            <<Ev(IF pathfind_start(npcs[id], avoid_portals) = NoPos
                 THEN "no_search" ELSE "astar",
                 <<_get_feet_position(npcs[id]), avoid_portals>>,
                 pathfind_start(npcs[id], avoid_portals))>>
  /\ UNCHANGED <<npc_locations, active_scene, scene_npcs, active_modal, game_time,
                 time_accumulator, phase, iter_idx, update_count, schedVars>>

SpecPathfind == PathfindInit /\ [][PathfindTo]_vars

\* ------------------------------------------------ the mask, pixel by pixel
\* A mask image of MaskW x MaskH pixels: pixel <<x, y>> is "W" (opaque
\* black), "P" (opaque white) or "B" (any other colour, or alpha 0).
MaskW == 3
MaskH == 2

PixelKinds == {"W", "P", "B"}

MaskPoints == (0..(MaskW - 1)) \X (0..(MaskH - 1))

MaskImages == [MaskPoints -> PixelKinds]

MaskInBounds(x, y) == ~(x < 0 \/ y < 0 \/ x >= MaskW \/ y >= MaskH)

\* color.a > 0 and r == g == b == 255
IsWhitePixel(img, x, y) == img[<<x, y>>] = "P"

\* The walkability test without the bounds check: outside the image the
\* read wraps around to the opposite edge.
MaskCollisionSystem_is_walkable_wrapping(img, x, y) ==
  img[<<x % MaskW, y % MaskH>>] \in {"W", "P"}

MaskCollisionSystem_is_walkable(img, x, y) ==
  IF ~MaskInBounds(x, y) THEN FALSE
  ELSE img[<<x, y>>] \in {"W", "P"}

\* regions: portal id -> set of pixels, as _detect_portal_regions left it.
MaskCollisionSystem_is_portal(img, regions, x, y) ==
  IF ~MaskInBounds(x, y) THEN NoPortal
  ELSE IF IsWhitePixel(img, x, y)
       THEN IF \E pid \in DOMAIN regions : <<x, y>> \in regions[pid]
            THEN SetMin({pid \in DOMAIN regions : <<x, y>> \in regions[pid]})
            ELSE NoPortal
       ELSE NoPortal

\* _flood_fill_portal: <<region, visited>>; the stack is popped from its end.
RECURSIVE _flood_fill_portal(_, _, _, _)
_flood_fill_portal(img, stack, visited, region) ==
  IF stack = <<>> THEN <<region, visited>>
  ELSE LET p == stack[Len(stack)]
           rest == SubSeq(stack, 1, Len(stack) - 1)
       IN IF p \in visited \/ ~MaskInBounds(p[1], p[2])
          THEN _flood_fill_portal(img, rest, visited, region)
          ELSE IF ~IsWhitePixel(img, p[1], p[2])
               THEN _flood_fill_portal(img, rest, visited, region)
               ELSE _flood_fill_portal(
                      img,
                      rest \o << <<p[1] + 1, p[2]>>, <<p[1] - 1, p[2]>>,
                                 <<p[1], p[2] + 1>>, <<p[1], p[2] - 1>> >>,
                      visited \cup {p}, region \cup {p})

\* The scan that starts a new region at every unvisited white pixel without
\* flooding from it.
RECURSIVE ScanRegionsNoFlood(_, _, _, _)
ScanRegionsNoFlood(img, k, visited, regions) ==
  IF k >= MaskW * MaskH THEN regions
  ELSE LET x == k % MaskW
           y == k \div MaskW
       IN IF <<x, y>> \in visited \/ ~IsWhitePixel(img, x, y)
          THEN ScanRegionsNoFlood(img, k + 1, visited, regions)
          ELSE ScanRegionsNoFlood(img, k + 1, visited \cup {<<x, y>>},
                                  Append(regions, {<<x, y>>}))

\* The scan of _detect_portal_regions from pixel number k on (rows outer,
\* columns inner); regions is the sequence of regions found so far.
RECURSIVE ScanRegions(_, _, _, _)
ScanRegions(img, k, visited, regions) ==
  IF k >= MaskW * MaskH THEN regions
  ELSE LET x == k % MaskW
           y == k \div MaskW
           Filled(f) ==
             ScanRegions(img, k + 1, f[2],
                         IF f[1] # {} THEN Append(regions, f[1]) ELSE regions)
       IN IF <<x, y>> \in visited \/ ~IsWhitePixel(img, x, y)
          THEN ScanRegions(img, k + 1, visited, regions)
          ELSE Filled(_flood_fill_portal(img, << <<x, y>> >>, visited, {}))

\* Discovery with the scan that does not flood.
_detect_portal_regions_no_flood(img) ==
  LET AsDict(found) == [pid \in 0..(Len(found) - 1) |-> found[pid + 1]]
  IN AsDict(ScanRegionsNoFlood(img, 0, {}, <<>>))

_detect_portal_regions(img) ==
  LET AsDict(found) == [pid \in 0..(Len(found) - 1) |-> found[pid + 1]]
  IN AsDict(ScanRegions(img, 0, {}, <<>>))

\* pygame.Rect: right = left + width, bottom = top + height,
\* centerx = left + width // 2, centery = top + height // 2.
Rect(left, top, width, height) ==
  [left |-> left, top |-> top, width |-> width, height |-> height]

RectTestPoints(rect) ==
  {<<rect.left, rect.top>>,
   <<rect.left + rect.width - 1, rect.top>>,
   <<rect.left, rect.top + rect.height - 1>>,
   <<rect.left + rect.width - 1, rect.top + rect.height - 1>>,
   <<rect.left + rect.width \div 2, rect.top + rect.height \div 2>>}

\* The collision test that reads every pixel of the rectangle.
MaskCollisionSystem_rect_collides_every_pixel(img, rect) ==
  \E x \in rect.left..(rect.left + rect.width - 1),
     y \in rect.top..(rect.top + rect.height - 1) :
    ~MaskCollisionSystem_is_walkable(img, x, y)

MaskCollisionSystem_rect_collides(img, rect) ==
  \E q \in RectTestPoints(rect) : ~MaskCollisionSystem_is_walkable(img, q[1], q[2])

\* The rectangles asked about: inside the image or reaching one pixel out.
MaskRects ==
  {Rect(l, t, w, h) : l \in (0 - 1)..(MaskW - 1), t \in (0 - 1)..(MaskH - 1),
                      w \in 1..MaskW, h \in 1..MaskH}

MaskInit ==
  /\ npcs = [id \in NpcIds |-> NewNPC(InitialFeet)]
  /\ npc_locations = [id \in NpcIds |-> InitialScene]
  /\ active_scene = TitleScene
  /\ scene_npcs = <<>>
  /\ active_modal = FALSE
  /\ game_time = DayStart
  /\ time_accumulator = 0
  /\ phase = "mask"
  /\ iter_idx = 0
  /\ update_count = [id \in NpcIds |-> 0]
  /\ events = <<>>
  /\ actions = <<>>
  /\ loop_enabled = FALSE
  /\ current_action = 0
  /\ is_executing = FALSE
  /\ resolved = 0
  /\ dispatched = 0

MaskFrame ==
  UNCHANGED <<npcs, npc_locations, active_scene, scene_npcs, active_modal,
              game_time, time_accumulator, phase, iter_idx, update_count,
              schedVars>>

\* MaskCollisionSystem.__init__: the image is kept with its portal regions.
MaskCollisionSystem_init ==
  /\ phase = "mask"
  /\ events = <<>>
  /\ \E img \in MaskImages :
       events' = <<Ev("mask", img, _detect_portal_regions(img))>>
  /\ MaskFrame

\* is_walkable(x, y) and is_portal(x, y) of the loaded mask, for a point of
\* the image or one pixel outside it.
MaskQueryPoint ==
  /\ phase = "mask"
  /\ events # <<>>
  /\ \E x \in (0 - 1)..MaskW, y \in (0 - 1)..MaskH :
       events' =
         <<events[1],
           Ev("point", <<x, y>>,
              <<MaskCollisionSystem_is_walkable(events[1].s, x, y),
                MaskCollisionSystem_is_portal(events[1].s, events[1].n, x, y)>>)>>
  /\ MaskFrame

\* rect_collides(rect) of the loaded mask.
MaskQueryRect ==
  /\ phase = "mask"
  /\ events # <<>>
  /\ \E rect \in MaskRects :
       events' = <<events[1],
                   Ev("rect", rect,
                      MaskCollisionSystem_rect_collides(events[1].s, rect))>>
  /\ MaskFrame

MaskNext ==
  \/ MaskCollisionSystem_init
  \/ MaskQueryPoint
  \/ MaskQueryRect

SpecMask == MaskInit /\ [][MaskNext]_vars

\* ------------------------------------------------ the registry, call by call
\* The ids the calls are made with: two NPCs of the world and the id
\* trigger_npc_portal_transition falls back to for an NPC without npc_id.
RegistryIds == {"henry", "yuki"}

CallerIds == RegistryIds \cup {"unknown"}

\* An NPC at rest, and one with a local path and a scene path under way.
RegistryNpcs ==
  {NewNPC(InitialFeet),
   [NewNPC(1) EXCEPT !.path = <<2>>, !.destination = 2, !.target_scene = "S3",
                     !.scene_path = find_scene_path("S1", "S3")]}

\* A removal that forgets the location entry.
remove_npc_keeps_location(ns, loc, id) ==
  <<[i \in DOMAIN ns \ {id} |-> ns[i]], loc>>

\* get_npcs_in_scene: the ids of the NPCs returned.
get_npcs_in_scene(ns, loc, scene_name) ==
  {id \in DOMAIN loc : loc[id] = scene_name /\ id \in DOMAIN ns}

\* The documents apply_world_state is called with: an entry for some of the
\* ids, each with a position and a scene name or none.
SavedStates ==
  UNION {[D -> [x : {InitialFeet - FeetOffset}, scene : {"S1", "S2", NoScene}]] :
           D \in SUBSET CallerIds}

\* remove_npc: <<_npcs, _npc_locations>> after the call.
remove_npc(ns, loc, id) ==
  <<[i \in DOMAIN ns \ {id} |-> ns[i]], [i \in DOMAIN loc \ {id} |-> loc[i]]>>

\* _npcs and _npc_locations hold some of the NPCs, each in a scene.
RegistryInit ==
  /\ \E D \in SUBSET RegistryIds :
       /\ npcs \in [D -> RegistryNpcs]
       /\ npc_locations \in [D -> Scenes]
  /\ active_scene = InitialScene
  /\ scene_npcs = <<>>
  /\ active_modal = FALSE
  /\ game_time = DayStart
  /\ time_accumulator = 0
  /\ phase = "registry"
  /\ iter_idx = 0
  /\ update_count = [id \in NpcIds |-> 0]
  /\ events = <<>>
  /\ actions = <<>>
  /\ loop_enabled = FALSE
  /\ current_action = 0
  /\ is_executing = FALSE
  /\ resolved = 0
  /\ dispatched = 0

RegistryFrame ==
  UNCHANGED <<active_scene, scene_npcs, active_modal, game_time,
              time_accumulator, phase, iter_idx, update_count, schedVars>>

\* A call of move_npc_to_scene(npc_id, scene_name); the log keeps the
\* arguments and the location the id had.
MoveNpcToScene ==
  /\ phase = "registry"
  /\ \E id \in CallerIds, scene \in Scenes :
       /\ npc_locations' = move_npc_to_scene(npc_locations, id, scene)
       /\ events' = <<Ev("move_npc_to_scene", <<id, scene>>,
                         get_npc_location(npc_locations, id))>>
  /\ UNCHANGED npcs
  /\ RegistryFrame

\* A call of remove_npc(npc_id).
RemoveNpc ==
  /\ phase = "registry"
  /\ \E id \in CallerIds :
       /\ npcs' = remove_npc(npcs, npc_locations, id)[1]
       /\ npc_locations' = remove_npc(npcs, npc_locations, id)[2]
       /\ events' = <<Ev("remove_npc", <<id>>, get_npc_location(npc_locations, id))>>
  /\ RegistryFrame

\* A call of initialize_world.
InitializeWorld ==
  /\ phase = "registry"
  /\ npcs' = initialize_world.npcs
  /\ npc_locations' = initialize_world.loc
  /\ events' = <<Ev("initialize_world", <<>>, NoScene)>>
  /\ RegistryFrame

\* A call of apply_world_state(state); the log keeps the document.
ApplyWorldState ==
  /\ phase = "registry"
  /\ \E state \in SavedStates :
       LET w == apply_world_state(state, World(npcs, npc_locations, scene_npcs, <<>>))
       IN /\ npcs' = w.npcs
          /\ npc_locations' = w.loc
          /\ events' = <<Ev("apply_world_state", <<>>, state)>>
  /\ RegistryFrame

RegistryNext ==
  \/ MoveNpcToScene
  \/ RemoveNpc
  \/ InitializeWorld
  \/ ApplyWorldState

SpecRegistry == RegistryInit /\ [][RegistryNext]_vars

\* -------------------------------------------- a schedule file that fails
\* Entries whose "time" does not split into hours and minutes.
BadEntries ==
  {ScheduleEntry(<<8>>, "idle", NoScene, NoPos, NoScene),
   ScheduleEntry(<<8>>, "navigate_to_scene", NoScene, NoPos, "S3")}

\* ScheduleAction.__init__ raises ValueError on the entry.
RaisesOnEntry(e) == IsActionEntry(e) /\ Len(e.time) # 2

\* A schedule document: whether open() finds it, whether json.load() parses
\* it, and its "schedule" list.
ScheduleDocument(exists, parses, schedule) ==
  [exists |-> exists, parses |-> parses, schedule |-> schedule]

\* The documents that are missing or malformed.
BadScheduleFiles ==
  {ScheduleDocument(FALSE, FALSE, <<>>), ScheduleDocument(TRUE, FALSE, <<>>)}
  \cup {ScheduleDocument(TRUE, TRUE, s) :
          s \in {t \in UNION {[1..len -> ScheduleEntries \cup BadEntries] :
                                len \in 1..MaxSchedLen} :
                   \E k \in DOMAIN t : RaisesOnEntry(t[k])}}

\* The loader whose handler keeps what was parsed before the failure.
_load_schedule_keeping_parsed(file) ==
  IF ~file.exists \/ ~file.parses THEN <<<<>>, FALSE>>
  ELSE LET bad == {k \in DOMAIN file.schedule : RaisesOnEntry(file.schedule[k])}
           before == IF bad = {} THEN file.schedule
                     ELSE SubSeq(file.schedule, 1, SetMin(bad) - 1)
       IN _load_schedule(before)

\* _load_schedule with its try/except: an exception of open(), json.load()
\* or ScheduleAction() empties the action list; loop_enabled keeps what the
\* entries before the failing one made of it.
_load_schedule_file(file) ==
  IF ~file.exists \/ ~file.parses THEN <<<<>>, FALSE>>
  ELSE LET bad == {k \in DOMAIN file.schedule : RaisesOnEntry(file.schedule[k])}
       IN IF bad = {} THEN _load_schedule(file.schedule)
          ELSE <<<<>>,
                 _load_schedule(SubSeq(file.schedule, 1, SetMin(bad) - 1))[2]>>

\* A controller built for henry from a missing or malformed schedule file.
BadSchedInit ==
  /\ \E f \in BadScheduleFiles :
       /\ actions = _load_schedule_file(f)[1]
       /\ loop_enabled = _load_schedule_file(f)[2]
  /\ current_action = 0
  /\ is_executing = FALSE
  /\ resolved = 0
  /\ dispatched = 0
  /\ active_scene \in {"S1", "S2"}
  /\ LET w == LoadNpcs(World([id \in NpcIds |-> NewNPC(InitialFeet)],
                             [id \in NpcIds |-> InitialScene], <<>>, <<>>),
                       NpcOrder, active_scene)
     IN /\ npcs = w.npcs
        /\ npc_locations = w.loc
        /\ scene_npcs = w.list
  /\ active_modal = FALSE
  /\ game_time = DayStart
  /\ time_accumulator = 0
  /\ phase = "schedule"
  /\ iter_idx = 0
  /\ update_count = [id \in NpcIds |-> 0]
  /\ events = <<>>

\* NPC.update of the NPC, left to its state machine with all its draws.
FreeNpcUpdate == SchedNpcUpdateWith(Draws)

BadSchedNext ==
  \/ SchedTick
  \/ FreeNpcUpdate
  \/ SchedClock

SpecBadSchedule == BadSchedInit /\ [][BadSchedNext]_vars

\* --------------------------------- a journey that starts inside a portal
\* The world definition places henry in S4 on a pixel of the door to S1
\* (portal pixels are walkable, so the load keeps him there); S4 is on screen
\* and his schedule sends him to S3, which is two hops away through the
\* other door.
PortalStartScene == "S4"

PortalStartFeet == 2

PortalStartInit ==
  /\ \E f \in ScheduleFiles :
       /\ actions = _load_schedule(f)[1]
       /\ loop_enabled = _load_schedule(f)[2]
  /\ Len(actions) = 1
  /\ actions[1].action_type = "navigate_to_scene"
  /\ current_action = 0
  /\ is_executing = FALSE
  /\ resolved = 0
  /\ dispatched = 0
  /\ active_scene = PortalStartScene
  /\ LET w == LoadNpcs(World([id \in NpcIds |-> NewNPC(PortalStartFeet)],
                             [id \in NpcIds |-> PortalStartScene], <<>>, <<>>),
                       NpcOrder, active_scene)
     IN /\ npcs = w.npcs
        /\ npc_locations = w.loc
        /\ scene_npcs = w.list
  /\ active_modal = FALSE
  /\ game_time = DayStart
  /\ time_accumulator = 0
  /\ phase = "schedule"
  /\ iter_idx = 0
  /\ update_count = [id \in NpcIds |-> 0]
  /\ events = <<>>

SpecPortalStart == PortalStartInit /\ [][JourneyNext]_vars

\* ------------------------------------------- an NPC removed from the world
\* npcs holds the NPC objects; _npcs and _npc_locations gain and lose an id
\* together, so an id is registered exactly when npc_locations has it.  The
\* scene's list keeps its reference to the object of a removed NPC.
RemovedNpc == "henry"

\* The game is in a scene, henry registered in his first scene.
RemoveInit ==
  /\ active_scene \in {"S1", "S2"}
  /\ LET w == LoadNpcs(World([id \in NpcIds |-> NewNPC(InitialFeet)],
                             [id \in NpcIds |-> InitialScene], <<>>, <<>>),
                       NpcOrder, active_scene)
     IN /\ npcs = w.npcs
        /\ npc_locations = w.loc
        /\ scene_npcs = w.list
  /\ active_modal = FALSE
  /\ game_time = DayStart
  /\ time_accumulator = 0
  /\ phase = "events"
  /\ iter_idx = 0
  /\ update_count = [id \in NpcIds |-> 0]
  /\ events = <<>>
  /\ actions = <<>>
  /\ loop_enabled = FALSE
  /\ current_action = 0
  /\ is_executing = FALSE
  /\ resolved = 0
  /\ dispatched = 0

\* remove_npc(henry), called while the frame's events are handled.  The log
\* keeps what henry was doing: <<in the scene's list, local path, scene path>>.
RemoveRegisteredNpc ==
  /\ phase = "events"
  /\ RemovedNpc \in DOMAIN npc_locations
  /\ npc_locations' = remove_npc(npcs, npc_locations, RemovedNpc)[2]
  /\ events' = <<Ev("remove_npc", RemovedNpc,
                    <<InSeq(scene_npcs, RemovedNpc), npcs[RemovedNpc].path # <<>>,
                      HasScenePath(npcs[RemovedNpc])>>)>>
  /\ phase' = "scene"
  /\ iter_idx' = 0
  /\ UNCHANGED <<npcs, active_scene, scene_npcs, active_modal, game_time,
                 time_accumulator, update_count, schedVars>>

RemoveNext ==
  \/ NoEvent
  \/ RemoveRegisteredNpc
  \/ SceneUpdateNpc
  \/ SceneUpdateEnd
  \/ ClockAdvance
  \/ UpdateAllNpc
  \/ DrawFrame

SpecRemove == RemoveInit /\ [][RemoveNext]_vars

\* --------------------------------------------- the start of a journey
\* An NPC about to travel: registered in any room or in none, in the list of
\* the scene on screen or off screen, standing still or on a local path.
TravelStartNpc == "henry"

TravelStartInit ==
  /\ \E reg \in AllScenes \cup {NoScene}, listed \in BOOLEAN, feet \in 0..(Width - 1),
        walking \in BOOLEAN :
       /\ active_scene = IF listed THEN (IF reg = NoScene THEN "S1" ELSE reg)
                         ELSE IF reg = "S2" THEN "S3" ELSE "S2"
       /\ listed => is_walkable(active_scene, feet)
       /\ npc_locations = IF reg = NoScene THEN [id \in {} |-> NoScene]
                          ELSE [id \in NpcIds |-> reg]
       /\ scene_npcs = IF listed THEN <<TravelStartNpc>> ELSE <<>>
       /\ npcs = [id \in NpcIds |->
                    [NewNPC(feet) EXCEPT
                       !.scene = IF listed THEN active_scene ELSE NoScene,
                       !.mask_system = IF listed THEN active_scene ELSE NoScene,
                       !.path = IF walking THEN <<1>> ELSE <<>>,
                       !.destination = IF walking THEN 1 ELSE NoPos]]
  /\ active_modal = FALSE
  /\ game_time = DayStart
  /\ time_accumulator = 0
  /\ phase = "travel"
  /\ iter_idx = 0
  /\ update_count = [id \in NpcIds |-> 0]
  /\ events = <<>>
  /\ actions = <<>>
  /\ loop_enabled = FALSE
  /\ current_action = 0
  /\ is_executing = FALSE
  /\ resolved = 0
  /\ dispatched = 0

TravelStartFrame ==
  UNCHANGED <<active_scene, active_modal, game_time, time_accumulator, phase,
              iter_idx, update_count, schedVars>>

\* TravelToSceneState.enter; the log opens with the registry location at the
\* call.
TravelEnter ==
  /\ phase = "travel"
  /\ \E pick \in 1..MaxPortals :
       Commit(TravelToSceneState_enter(
                World(npcs, npc_locations, scene_npcs,
                      <<Ev("travel_enter",
                           get_npc_location(npc_locations, TravelStartNpc), pick)>>),
                TravelStartNpc, pick))
  /\ TravelStartFrame

\* NPC.pathfind_to_scene(target_scene, x, y); the log opens with the request
\* and the NPC and registry at the call.
PathfindToScene ==
  /\ phase = "travel"
  /\ \E target_scene \in AllScenes, target_x \in {NoPos, 1} :
       Commit(pathfind_to_scene(
                World(npcs, npc_locations, scene_npcs,
                      <<Ev("pathfind_to_scene", <<target_scene, target_x>>,
                           <<npcs[TravelStartNpc], npc_locations>>)>>),
                TravelStartNpc, target_scene, target_x))
  /\ TravelStartFrame

TravelStartNext ==
  \/ TravelEnter
  \/ PathfindToScene

SpecTravelStart == TravelStartInit /\ [][TravelStartNext]_vars

\* ------------------------------------------- a Wander trip on a loaded mask
\* A mask of TripW x TripH cells of the pathfinder's grid, a portal in the
\* middle with a wall to its left: the way round the portal leads through
\* the right column.
TripW == 3
TripH == 3

TripPoints == (0..(TripW - 1)) \X (0..(TripH - 1))

TripImage ==
  [p \in TripPoints |->
     IF p = <<1, 1>> THEN "P" ELSE IF p = <<0, 1>> THEN "B" ELSE "W"]

NoPoint == <<NoPos, NoPos>>

\* The is_walkable closure of pathfind_to (no props in the scene).
TripWalkable(avoid_portals) ==
  {p \in TripPoints :
     /\ TripImage[p] \in {"W", "P"}
     /\ avoid_portals => TripImage[p] # "P"}

\* Neighbouring cells of the grid, diagonals included.
GridStep(p, q) ==
  /\ p # q
  /\ Abs(p[1] - q[1]) <= 1
  /\ Abs(p[2] - q[2]) <= 1

TripUnreachable == TripW * TripH

\* Steps from p to the nearest cell of frontier over walkable cells.
RECURSIVE GridDist(_, _, _, _)
GridDist(walkable, frontier, seen, p) ==
  IF p \in frontier THEN 0
  ELSE LET next == {q \in walkable \ seen : \E f \in frontier : GridStep(f, q)}
       IN IF next = {} THEN TripUnreachable
          ELSE 1 + GridDist(walkable, next, seen \cup next, p)

\* The shortest waypoint sequences from p to goal, p first.
RECURSIVE GridPaths(_, _, _)
GridPaths(walkable, p, goal) ==
  LET d(q) == GridDist(walkable, {goal}, {goal}, q)
  IN IF p = goal THEN {<<p>>}
     ELSE UNION {{<<p>> \o rest : rest \in GridPaths(walkable, q, goal)} :
                 q \in {r \in walkable : GridStep(p, r) /\ d(r) + 1 = d(p)}}

\* The answers the search can give: a shortest sequence of walkable cells,
\* the empty sequence when the goal cannot be reached.
grid_astar(walkable, start, goal) ==
  IF goal \notin walkable \/ GridDist(walkable, {goal}, {goal}, start) >= TripUnreachable
  THEN {<<>>}
  ELSE GridPaths(walkable, start, goal)

\* The scan for a walkable start: x offsets outside, y offsets inside, both
\* ascending.
TripNearbyStart(walkable, start) ==
  LET cand == {p \in walkable : Abs(p[1] - start[1]) <= SearchRadius
                                /\ Abs(p[2] - start[2]) <= SearchRadius}
  IN IF cand = {} THEN NoPoint
     ELSE CHOOSE p \in cand :
            \A q \in cand : p[1] < q[1] \/ (p[1] = q[1] /\ p[2] <= q[2])

\* NPC.pathfind_to on the grid: the NPCs it can leave behind.
trip_pathfind_to(n, target, avoid_portals) ==
  LET n1 == [n EXCEPT !.destination = target, !.stuck_timer = 0, !.repath_timer = 0]
      walkable == TripWalkable(avoid_portals)
      start == IF n.pos \in walkable THEN n.pos ELSE TripNearbyStart(walkable, n.pos)
  IN IF start = NoPoint THEN {n1}
     ELSE {[n1 EXCEPT !.pos = start, !.path = path, !.current_waypoint_idx = 0] :
             path \in grid_astar(walkable, start, target)}

TripNPC(pos) ==
  [pos |-> pos, path |-> <<>>, current_waypoint_idx |-> 0, destination |-> NoPoint,
   stuck_timer |-> 0, repath_timer |-> 0, last_position |-> pos,
   state |-> STATE_IDLE]

\* The points a sample of WanderState.enter can accept (distances squared;
\* the portal's centre is that of its bounding box, coordinates doubled).
TripWanderCandidates(pos) ==
  LET d2(p, q) == (p[1] - q[1]) * (p[1] - q[1]) + (p[2] - q[2]) * (p[2] - q[2])
      region == {p \in TripPoints : TripImage[p] = "P"}
      centre2 == <<SetMin({p[1] : p \in region}) + SetMax({p[1] : p \in region}) + 1,
                   SetMin({p[2] : p \in region}) + SetMax({p[2] : p \in region}) + 1>>
  IN {c \in TripPoints :
        /\ d2(c, pos) >= WanderMinDist * WanderMinDist
        /\ d2(c, pos) <= WanderRadius * WanderRadius
        /\ TripImage[c] = "W"
        /\ d2(<<2 * c[1], 2 * c[2]>>, centre2) >= 4 * PortalMinDist * PortalMinDist}

\* The stuck check and the periodic re-path of NPC.update on the grid.
TripRepathCheck(n) ==
  LET Periodic(n2) ==
        IF n2.repath_timer >= RepathInterval
        THEN trip_pathfind_to([n2 EXCEPT !.repath_timer = 0], n2.destination, FALSE)
        ELSE {n2}
      Stuck(n1) ==
        Periodic([n1 EXCEPT !.last_position = n.pos,
                            !.repath_timer = n1.repath_timer + dt])
  IN IF ~(HasPath(n) /\ n.destination # NoPoint) THEN {n}
     ELSE IF n.pos = n.last_position
     THEN IF n.stuck_timer + dt > StuckLimit
          THEN UNION {Stuck([m EXCEPT !.stuck_timer = 0]) :
                        m \in trip_pathfind_to(n, n.destination, FALSE)}
          ELSE Stuck([n EXCEPT !.stuck_timer = n.stuck_timer + dt])
     ELSE Stuck([n EXCEPT !.stuck_timer = 0])

\* _follow_path on the grid: a waypoint is a cell away.
TripFollowPath(n) ==
  IF n.current_waypoint_idx >= Len(n.path)
  THEN [n EXCEPT !.path = <<>>, !.current_waypoint_idx = 0]
  ELSE [n EXCEPT !.pos = n.path[n.current_waypoint_idx + 1],
                 !.current_waypoint_idx = n.current_waypoint_idx + 1]

TripNpc == "henry"

\* henry stands idle on a walkable cell of the loaded scene, off the portal.
TripInit ==
  /\ \E pos \in TripWalkable(TRUE) : npcs = [id \in NpcIds |-> TripNPC(pos)]
  /\ npc_locations = [id \in NpcIds |-> InitialScene]
  /\ active_scene = InitialScene
  /\ scene_npcs = NpcOrder
  /\ active_modal = FALSE
  /\ game_time = DayStart
  /\ time_accumulator = 0
  /\ phase = "trip"
  /\ iter_idx = 0
  /\ update_count = [id \in NpcIds |-> 0]
  /\ events = <<>>
  /\ actions = <<>>
  /\ loop_enabled = FALSE
  /\ current_action = 0
  /\ is_executing = FALSE
  /\ resolved = 0
  /\ dispatched = 0

TripFrame ==
  UNCHANGED <<npc_locations, active_scene, scene_npcs, active_modal, game_time,
              time_accumulator, iter_idx, update_count, schedVars>>

\* The state machine enters Wander: a sample is accepted and the path to it
\* is requested with portal avoidance.
TripWanderEnter ==
  /\ phase = "trip"
  /\ npcs[TripNpc].state = STATE_IDLE
  /\ \E target \in TripWanderCandidates(npcs[TripNpc].pos) :
       \E n \in trip_pathfind_to([npcs[TripNpc] EXCEPT !.state = STATE_WANDER],
                                 target, TRUE) :
         /\ npcs' = [npcs EXCEPT ![TripNpc] = n]
         /\ events' = <<Ev("path_request", "wander", target)>>
  /\ phase' = phase
  /\ TripFrame

\* NPC.update during the trip: the portal check, the re-path checks, a step
\* along the path; Wander is complete when the path is used up.
TripNpcUpdate ==
  /\ phase = "trip"
  /\ npcs[TripNpc].state = STATE_WANDER
  /\ IF TripImage[npcs[TripNpc].pos] = "P"
     THEN /\ phase' = "left"
          /\ events' = <<Ev("portal", InitialScene, 0)>>
          /\ UNCHANGED npcs
     ELSE /\ phase' = phase
          /\ \E n \in TripRepathCheck(npcs[TripNpc]) :
               /\ npcs' = [npcs EXCEPT ![TripNpc] =
                             IF HasPath(n) THEN TripFollowPath(n)
                             ELSE [n EXCEPT !.state = STATE_IDLE, !.path = <<>>,
                                            !.current_waypoint_idx = 0,
                                            !.destination = NoPoint]]
               /\ events' = IF n.path # npcs[TripNpc].path
                            THEN <<Ev("repath", "wander", n.destination)>>
                            ELSE <<>>
  /\ TripFrame

TripNext ==
  \/ TripWanderEnter
  \/ TripNpcUpdate

SpecWanderTrip == TripInit /\ [][TripNext]_vars

\* ------------------------------------------------------- off-screen NPC
\* An NPC registered in a scene the player is not in: the title screen is
\* up, no scene holds the NPC, and update_all_npcs drives it.
OffscreenScenes == {"S1", "S8"}

OffscreenInit ==
  /\ active_scene = TitleScene
  /\ \E s \in OffscreenScenes :
       \E feet \in {f \in 0..(Width - 1) : is_walkable(s, f)} :
         /\ npcs = [id \in NpcIds |-> NewNPC(feet)]
         /\ npc_locations = [id \in NpcIds |-> s]
  /\ scene_npcs = <<>>
  /\ active_modal = FALSE
  /\ game_time = DayStart
  /\ time_accumulator = 0
  /\ phase = "offscreen"
  /\ iter_idx = 0
  /\ update_count = [id \in NpcIds |-> 0]
  /\ events = <<>>
  /\ actions = <<>>
  /\ loop_enabled = FALSE
  /\ current_action = 0
  /\ is_executing = FALSE
  /\ resolved = 0
  /\ dispatched = 0

\* update_all_npcs for the one NPC of the world.
OffscreenNpcUpdate ==
  /\ phase = "offscreen"
  /\ \E d \in Draws :
       \E w \in {NPC_update(World(npcs, npc_locations, scene_npcs, <<>>),
                             NpcOrder[1], d)} :
         /\ Commit(w)
         /\ phase' = IF Raised(w) THEN "crashed" ELSE phase
  /\ UNCHANGED <<active_scene, active_modal, game_time, time_accumulator,
                 iter_idx, update_count, schedVars>>

OffscreenNext == OffscreenNpcUpdate

SpecOffscreen == OffscreenInit /\ [][OffscreenNext]_vars

\* ------------------------------------------------- stuck and re-path timers
\* An NPC on screen in its scene, idle or wandering, at rest or up to two
\* _follow_path calls along its way to a destination, with the timers and the
\* last position some earlier updates left.
RepathNpc == NpcOrder[1]

RepathInit ==
  /\ active_scene \in Scenes
  /\ \E feet \in {f \in 0..(Width - 1) : is_walkable(active_scene, f)},
        dest \in (0..(Width - 1)) \cup {NoPos},
        stuck \in 0..StuckLimit, repath \in 0..(RepathInterval - 1),
        last \in 0..(Width - 1), state \in {STATE_IDLE, STATE_WANDER},
        walked \in 0..2 :
       LET here == [NewNPC(feet) EXCEPT !.scene = active_scene,
                                        !.mask_system = active_scene,
                                        !.state = state,
                                        !.duration = IdleMax]
           walking == IF dest = NoPos THEN here
                      ELSE IF state = STATE_WANDER
                      THEN pathfind_to([here EXCEPT !.wander_target = dest], dest, TRUE)
                      ELSE pathfind_to(here, dest, FALSE)
           Step(n) == IF HasPath(n) /\ ~_follow_path_raises(n) THEN _follow_path(n)
                      ELSE n
           now == IF walked = 0 THEN walking
                  ELSE IF walked = 1 THEN Step(walking) ELSE Step(Step(walking))
       IN npcs = [id \in NpcIds |->
                    IF HasPath(now)
                    THEN [now EXCEPT !.stuck_timer = stuck, !.repath_timer = repath,
                                     !.last_position = last]
                    ELSE now]
  /\ npc_locations = [id \in NpcIds |-> active_scene]
  /\ scene_npcs = NpcOrder
  /\ active_modal = FALSE
  /\ game_time = DayStart
  /\ time_accumulator = 0
  /\ phase = "repath"
  /\ iter_idx = 0
  /\ update_count = [id \in NpcIds |-> 0]
  /\ events = <<>>
  /\ actions = <<>>
  /\ loop_enabled = FALSE
  /\ current_action = 0
  /\ is_executing = FALSE
  /\ resolved = 0
  /\ dispatched = 0

\* NPC.update; the log opens with the NPC at the call.
RepathUpdate ==
  /\ phase = "repath"
  /\ \E d \in SchedDraws :
       \E w \in {NPC_update(World(npcs, npc_locations, scene_npcs,
                                   <<Ev("update", RepathNpc, npcs[RepathNpc])>>),
                             RepathNpc, d)} :
         /\ Commit(w)
         /\ phase' = IF Raised(w) THEN "crashed" ELSE phase
  /\ UNCHANGED <<active_scene, active_modal, game_time, time_accumulator,
                 iter_idx, update_count, schedVars>>

RepathNext == RepathUpdate

SpecRepath == RepathInit /\ [][RepathNext]_vars

\* ------------------------------------------------------ frame loop claims
EventIdx(k) == {i \in DOMAIN events : events[i].k = k}

HasEventAt(i, k) == i \in DOMAIN events /\ events[i].k = k

\* C1: in every frame, update(dt) is invoked exactly once on each NPC of the
\* registry, whether or not the NPC is also in the active scene's list.
\* (The frame's count is final when the frame is drawn.)
C1_OneUpdatePerFrame ==
  phase = "draw" => \A id \in NpcIds : update_count[id] = 1

\* C3: the state machine has exactly one active state among Idle, Wander and
\* Travel; an update leaves or re-enters the state only when the tick found
\* is_complete() true, and then exit() runs once on the old state and
\* enter() once on the new one, exit first.
C3_TransitionOnlyWhenComplete ==
  /\ \A id \in NpcIds : npcs[id].state \in States
  /\ Cardinality(EventIdx("tick")) <= 1
  /\ Cardinality(EventIdx("complete")) <= 1
  /\ Cardinality(EventIdx("exit")) = Cardinality(EventIdx("complete"))
  /\ Cardinality(EventIdx("enter")) = Cardinality(EventIdx("complete"))
  /\ \A t \in EventIdx("tick") :
       IF EventIdx("complete") = {}
       THEN npcs["henry"].state = events[t].s
       ELSE /\ HasEventAt(t + 1, "complete")
            /\ HasEventAt(t + 2, "exit") /\ events[t + 2].s = events[t].s
            /\ \A e \in EventIdx("enter") :
                 e > t + 2 /\ events[e].s = npcs["henry"].state
  /\ EventIdx("complete") # {} => EventIdx("tick") # {}

C3_Witness ==
  /\ EventIdx("exit") # {} /\ EventIdx("enter") # {}
  /\ \E t \in EventIdx("tick") : events[t].s # npcs["henry"].state

\* C9 (as the code has it): a portal transition removes the NPC from the old
\* scene's list, then updates the registry, then sets the coordinates to the
\* spawn point, then inserts the NPC into the destination's list if and only
\* if the destination is the active scene; the off-screen hop updates the
\* registry, then sets the coordinates to the hop's spawn point, and inserts
\* into no list, whether or not the destination is active.
C9_TransitionOrder ==
  /\ \A i \in EventIdx("registry") :
       /\ HasEventAt(i + 1, "reposition")
       /\ \/ /\ HasEventAt(i - 1, "remove") /\ HasEventAt(i - 2, "portal")
             /\ HasPortalConfig(events[i - 2].s, events[i - 2].n)
             /\ PortalConfig(events[i - 2].s, events[i - 2].n).to_scene = events[i].s
             /\ PortalConfig(events[i - 2].s, events[i - 2].n).spawn = events[i + 1].n
             /\ HasEventAt(i + 2, "insert") <=> events[i].n = 1
             /\ HasEventAt(i + 2, "insert") => events[i + 2].s = events[i].s
          \/ /\ HasEventAt(i - 1, "hop")
             /\ events[i - 1].n = events[i + 1].n
             /\ ~HasEventAt(i + 2, "insert")
  /\ \A i \in EventIdx("remove") : HasEventAt(i + 1, "registry")
  /\ \A i \in EventIdx("hop") : HasEventAt(i + 1, "registry")
  /\ \A i \in EventIdx("reposition") : HasEventAt(i - 1, "registry")
  /\ \A i \in EventIdx("insert") : HasEventAt(i - 1, "reposition")

\* A portal transition into the active scene has inserted the NPC.
C9_Witness ==
  \E i \in EventIdx("insert") :
    /\ HasEventAt(i - 3, "remove")
    /\ events[i].s = active_scene
    /\ InSeq(scene_npcs, "henry")

\* C9 as stated: on either route the NPC is inserted into the destination's
\* list if and only if the destination is the active scene.
C9_InsertIffActive ==
  \A i \in EventIdx("registry") :
    HasEventAt(i + 2, "insert") <=> events[i].n = 1

\* C10: an NPC at step 0 of a scene path [(A, p, spawn), (B, none, _)] that
\* stands on portal p of its loaded scene A.
C10_OnExpectedPortal(id) ==
  LET n == npcs[id]
  IN /\ active_scene \in Scenes
     /\ n.scene = active_scene /\ n.mask_system = active_scene
     /\ npc_locations[id] = active_scene
     /\ Len(n.scene_path) = 2 /\ n.current_scene_step = 0
     /\ n.scene_path[1].scene = active_scene
     /\ n.scene_path[1].portal # NoPortal
     /\ n.scene_path[2].portal = NoPortal
     /\ is_portal(n.mask_system, _get_feet_position(n)) = n.scene_path[1].portal

C10_Updated(id) == update_count'[id] = update_count[id] + 1

C10_Arrived(id) ==
  /\ npc_locations'[id] = npcs[id].scene_path[2].scene
  /\ _get_feet_position(npcs'[id]) = npcs[id].scene_path[1].spawn
  /\ npcs'[id].current_scene_step = 1
  /\ npcs'[id].scene_path = <<>>

\* C10 (as the code has it): when such an NPC is updated and the state
\* machine's tick of that update does not complete the current state, the
\* update moves the registry location to B, sets the feet to spawn, advances
\* the step by exactly one (to 1) and clears the scene path.
C10_FinalHop ==
  [][\A id \in NpcIds :
       (C10_OnExpectedPortal(id) /\ C10_Updated(id) /\ EventIdx("complete")' = {})
         => C10_Arrived(id)]_vars

C10_Witness ==
  /\ EventIdx("portal") # {} /\ EventIdx("complete") = {}
  /\ \E i \in EventIdx("registry") :
       /\ HasEventAt(i - 1, "remove")
       /\ npc_locations["henry"] = events[i].s
       /\ events[i].s # active_scene
  /\ npcs["henry"].current_scene_step = 1
  /\ npcs["henry"].scene_path = <<>>
  /\ npcs["henry"].scene = NoScene

\* C10 as stated: the update of such an NPC always ends with the NPC arrived.
C10_FinalHopAlways ==
  [][\A id \in NpcIds :
       (C10_OnExpectedPortal(id) /\ C10_Updated(id)) => C10_Arrived(id)]_vars

\* ---------------------------------------------------------- schedule claims
\* The last step was a controller update; the clock has not moved since.
SchedTicked == events # <<>> /\ events[1].k = "sched"

EntriesDue == {k \in DOMAIN actions : actions[k].time_minutes <= game_time}

\* The action the controller started is still executing and is the one the
\* schedule names for the current time.
ScheduledActionDue ==
  /\ current_action # 0 /\ is_executing
  /\ _find_next_action(game_time) = current_action

\* C2: an NPC update consults the schedule controller before the behaviour
\* state machine: the state machine is not ticked by an update made while a
\* scheduled action is active and due.
C2_ScheduleBeforeStateMachine ==
  EventIdx("tick") # {} => ~ScheduledActionDue

C5_WrapsToFirstAfterLast ==
  (/\ SchedTicked /\ loop_enabled /\ actions # <<>>
   /\ \A k \in DOMAIN actions : actions[k].time_minutes < game_time)
    => (resolved # 0 /\ actions[resolved].time_minutes = actions[1].time_minutes)

NoEntryDue == actions # <<>> /\ EntriesDue = {}

\* C6: a controller update when no entry has time <= now: a looping schedule
\* resolves its first entry, which is the started action from then on
\* (started by this update unless it already was); a non-looping schedule
\* resolves nothing, starts nothing and leaves the NPC as it is.
C6_NoEntryDue ==
  [][(SchedTicked' /\ NoEntryDue) =>
       IF loop_enabled
       THEN /\ resolved' = 1 /\ current_action' = 1
            /\ current_action # 1 => (dispatched' = 1 /\ is_executing')
       ELSE /\ resolved' = 0 /\ dispatched' = 0
            /\ current_action' = current_action
            /\ npcs' = npcs /\ npc_locations' = npc_locations]_vars

C6_Witness ==
  /\ SchedTicked /\ NoEntryDue /\ ~loop_enabled
  /\ resolved = 0 /\ dispatched = 0
  /\ HasPath(npcs[ScheduledNpc]) /\ HasScenePath(npcs[ScheduledNpc])
  /\ npcs[ScheduledNpc].destination # NoPos

\* C7: a controller update starts the entry it resolved if and only if that
\* entry is not the current one, whatever the NPC's path; an entry that stays
\* resolved is not started again.
C7_DispatchIffDiffers ==
  [][(SchedTicked' /\ actions # <<>>) =>
       /\ resolved' = _find_next_action(game_time)
       /\ resolved' # 0 => (dispatched' = resolved' <=> resolved' # current_action)
       /\ resolved' = 0 => dispatched' = 0
       /\ dispatched' # 0 =>
            (dispatched' = resolved' /\ current_action' = resolved' /\ is_executing')
       /\ dispatched' = 0 => current_action' = current_action]_vars

\* An entry was started while the previous movement was unfinished.
C7_Witness ==
  /\ SchedTicked /\ dispatched # 0
  /\ EventIdx("warning") # {}

\* C8: a move_to or navigate_to_scene action is reported complete only when
\* the NPC's local path and its scene path are both exhausted.
C8_CompleteOnlyWhenBothExhausted ==
  \A i \in EventIdx("finished") :
    events[i].s \in {"move_to", "navigate_to_scene"} =>
      (~HasPath(npcs[ScheduledNpc]) /\ ~HasScenePath(npcs[ScheduledNpc]))

\* ------------------------------------------------------- journey claims
\* C11: saving an NPC that is mid-journey and loading the save preserves its
\* x, its current scene, its scene path and its scene-path step.
C11_SaveRestorePreservesJourney ==
  \A id \in NpcIds :
    HasScenePath(npcs[id]) =>
      /\ SavedAndLoaded.npcs[id].x = npcs[id].x
      /\ SavedAndLoaded.loc[id] = npc_locations[id]
      /\ SavedAndLoaded.npcs[id].scene_path = npcs[id].scene_path
      /\ SavedAndLoaded.npcs[id].current_scene_step = npcs[id].current_scene_step

PortalHopsLeft(n) ==
  Cardinality({k \in (n.current_scene_step + 1)..Len(n.scene_path) :
                 n.scene_path[k].portal # NoPortal})

C12_Pending(id, t) ==
  /\ npc_locations[id] # active_scene
  /\ HasScenePath(npcs[id])
  /\ PortalHopsLeft(npcs[id]) >= 2
  /\ npcs[id].scene_path[Len(npcs[id].scene_path)].scene = t

C12_Reached(id, t) == npc_locations[id] = t /\ npcs[id].scene_path = <<>>

C12_Requested ==
  dispatched # 0 \/ \E i \in DOMAIN events : events[i].k = "path_request"

\* C12: an NPC whose scene is not loaded, holding a scene path with two or
\* more portal hops left, eventually stands registered in the path's target
\* scene with the scene path cleared, by update ticks alone (no new path
\* request in between).
C12_OffscreenJourneyCompletes ==
  FramesKeepComing =>
    \A t \in Scenes :
      C12_Pending(ScheduledNpc, t) ~> (C12_Reached(ScheduledNpc, t) \/ C12_Requested)

\* ------------------------------------------------- state machine claims
\* What the Travel state's completion test is claimed to be, at the tick
\* that moves the timer of n.
C13_Claimed(n) ==
  (~HasPath(n) /\ ~HasScenePath(n)) \/ Tick(n.time_in_state) >= MaxTravelTime

\* C13: a tick of the Travel state finds it complete exactly when the local
\* path and the scene path are both exhausted or the timer has reached
\* MaxTravelTime; so no NPC is ever seen in a Travel entry whose timer has
\* reached MaxTravelTime: the tick that reaches it leaves the entry.
C13_TravelCompletion ==
  /\ [](\A id \in NpcIds :
          npcs[id].state = STATE_TRAVEL => npcs[id].time_in_state < MaxTravelTime)
  /\ [][\A id \in NpcIds :
          (C10_Updated(id) /\ npcs[id].state = STATE_TRAVEL) =>
            ((2 \in DOMAIN events' /\ events'[2].k = "complete")
               <=> C13_Claimed(npcs[id]))]_vars

\* A Travel entry was left by its timeout, the journey unfinished.
C13_Witness ==
  /\ HasEventAt(1, "tick") /\ events[1].s = STATE_TRAVEL
  /\ HasEventAt(2, "complete")
  /\ npcs["henry"].state = STATE_WANDER
  /\ HasScenePath(npcs["henry"])

\* The step is a decision.
Decided == phase = "decide" /\ events' # <<>> /\ events'[1].k = "decide"

C15_MidTravelShift ==
  [][\A id \in NpcIds :
       (Decided /\ ~npcs[id].force_travel_next /\ HasScenePath(npcs[id])) =>
         events'[1].s =
           (IF events'[1].n < (WanderProb * TravelMult) \div 100 THEN STATE_WANDER
            ELSE IF events'[1].n < WanderProb + TravelProb THEN STATE_TRAVEL
            ELSE STATE_IDLE)]_vars

\* The update of id found its state complete.
C16_Completed(id) ==
  C10_Updated(id) /\ 2 \in DOMAIN events' /\ events'[2].k = "complete"

RECURSIVE ReachWithin(_, _, _)
ReachWithin(maps, from, k) ==
  IF k = 0 THEN {from}
  ELSE LET R == ReachWithin(maps, from, k - 1)
       IN R \cup {maps[s][i].to_scene : <<s, i>> \in
                    {si \in R \X (1..MaxPortals) : si[2] \in DOMAIN maps[si[1]]}}

Reachable(maps, from, to) == to \in ReachWithin(maps, from, Cardinality(Scenes))

MinHops(maps, from, to) ==
  SetMin({k \in 0..Cardinality(Scenes) : to \in ReachWithin(maps, from, k)})

\* The logged answer follows registered edges from `from` to `to`.
FollowsEdges(maps, from, to, path) ==
  /\ path # <<>>
  /\ path[1].scene = from
  /\ path[Len(path)].scene = to /\ path[Len(path)].portal = NoPortal
  /\ \A i \in 1..(Len(path) - 1) :
       \E k \in DOMAIN maps[path[i].scene] :
         /\ maps[path[i].scene][k].portal = path[i].portal
         /\ maps[path[i].scene][k].to_scene = path[i + 1].scene

Queried == HasEventAt(1, "find_scene_path")

\* C17: for every pair (from, to) with to reachable from from over the
\* directed portal edges (from # to), find_scene_path returns a path with the
\* minimum possible number of hops, each hop following a registered edge out
\* of the previous hop's scene.
C17_MinimumHopPath ==
  Queried =>
    LET maps == events[1].s[1]
        from == events[1].s[2]
        to == events[1].s[3]
    IN (from # to /\ Reachable(maps, from, to)) =>
         /\ FollowsEdges(maps, from, to, events[1].n)
         /\ Len(events[1].n) - 1 = MinHops(maps, from, to)

\* A two-hop answer where a longer route is registered first.
C17_Witness ==
  /\ Queried
  /\ Len(events[1].n) = 3
  /\ events[1].s[1][events[1].s[2]][1].to_scene # events[1].n[2].scene

\* C18: find_scene_path(from, to) is empty when from = to and when to is not
\* reachable from from along directed edges: an edge registered from A to B
\* alone does not make A reachable from B.
C18_EmptyWhenSameOrUnreachable ==
  Queried =>
    LET maps == events[1].s[1]
        from == events[1].s[2]
        to == events[1].s[3]
    IN (from = to \/ ~Reachable(maps, from, to)) => events[1].n = <<>>

\* An empty answer for (B, A) while the only registered edge runs from A to B.
C18_Witness ==
  /\ Queried
  /\ events[1].n = <<>>
  /\ events[1].s[2] # events[1].s[3]
  /\ Reachable(events[1].s[1], events[1].s[3], events[1].s[2])

\* ------------------------------------------------------ pathfinding claims
\* The isWalkable predicate of the logged request.
RequestWalkable ==
  Walkable(npcs["henry"].mask_system, events[1].s[2])

C20_StartWalkable ==
  /\ HasEventAt(1, "astar") =>
       /\ events[1].n \in RequestWalkable
       /\ _get_feet_position(npcs["henry"]) = events[1].n
       /\ events[1].s[1] \in RequestWalkable => events[1].n = events[1].s[1]
       /\ Abs(events[1].n - events[1].s[1]) <= SearchRadius
  /\ HasEventAt(1, "no_search") =>
       \/ npcs["henry"].mask_system = NoScene
       \/ /\ \A o \in (0 - SearchRadius)..SearchRadius :
               (events[1].s[1] + o) \notin RequestWalkable
          /\ _get_feet_position(npcs["henry"]) = events[1].s[1]

\* The NPC stood on an unwalkable point and was moved to a walkable one, from
\* which the search ran.
C20_Witness ==
  /\ HasEventAt(1, "astar")
  /\ events[1].s[1] \notin RequestWalkable
  /\ events[1].n \in RequestWalkable
  /\ _get_feet_position(npcs["henry"]) = events[1].n

\* ------------------------------------------------------------ mask claims
PointAsked == phase = "mask" /\ Len(events) = 2 /\ events[2].k = "point"

RectAsked == phase = "mask" /\ Len(events) = 2 /\ events[2].k = "rect"

\* C21: for every coordinate outside the mask's bounds, is_walkable returns
\* false and is_portal returns no portal id.
C21_OutOfBoundsIsNeither ==
  (PointAsked /\ events[2].s \notin MaskPoints)
    => events[2].n = <<FALSE, NoPortal>>

\* is_walkable and is_portal were asked about the pixel left of a row that
\* ends in a portal pixel, and above a column that ends in a walkable one.
C21_Witness ==
  /\ PointAsked
  /\ events[2].s \in {<<0 - 1, 0>>, <<0, 0 - 1>>}
  /\ events[1].s[<<MaskW - 1, 0>>] = "P"
  /\ events[1].s[<<0, MaskH - 1>>] = "W"
  /\ events[2].n = <<FALSE, NoPortal>>

\* C22: is_walkable(P) being true and is_portal(P) returning a portal id
\* never hold together for any point P of any mask.
C22_WalkableAndPortalExclusive ==
  PointAsked => ~(events[2].n[1] /\ events[2].n[2] # NoPortal)

MaskLoaded == phase = "mask" /\ events # <<>> /\ events[1].k = "mask"

Adjacent4(p, q) == Abs(p[1] - q[1]) + Abs(p[2] - q[2]) = 1

WhitePixels(img) == {p \in MaskPoints : img[p] = "P"}

\* The white pixels joined to a pixel of S by a chain of 4-neighbours.
RECURSIVE Component(_, _)
Component(img, S) ==
  LET Grown(T) == IF T = S THEN S ELSE Component(img, T)
  IN Grown(S \cup {q \in WhitePixels(img) : \E r \in S : Adjacent4(r, q)})

RowMajor(p) == p[2] * MaskW + p[1]

FirstPixel(region) == SetMin({RowMajor(p) : p \in region})

\* C23: region discovery partitions the portal-coloured pixels: every such
\* pixel is in exactly one region and no other pixel is in any, each region
\* is a maximal 4-connected set of them, and the ids are 0..n-1 in the
\* row-major order of the regions' first pixels (so the map is determined by
\* the mask, and discovering again gives the same map).
C23_RegionsPartitionPortalPixels ==
  MaskLoaded =>
    LET img == events[1].s
        regions == events[1].n
    IN /\ DOMAIN regions = 0..(Cardinality(DOMAIN regions) - 1)
       /\ \A p \in MaskPoints :
            Cardinality({pid \in DOMAIN regions : p \in regions[pid]})
              = IF img[p] = "P" THEN 1 ELSE 0
       /\ \A pid \in DOMAIN regions :
            /\ regions[pid] # {}
            /\ regions[pid] \subseteq MaskPoints
            /\ \A p \in regions[pid] : regions[pid] = Component(img, {p})
       /\ \A i, j \in DOMAIN regions :
            i < j => FirstPixel(regions[i]) < FirstPixel(regions[j])
       /\ _detect_portal_regions(img) = regions

\* A mask with two portal regions that touch only diagonally, the second of
\* more than one pixel, was loaded.
C23_Witness ==
  /\ MaskLoaded
  /\ events[1].s[<<0, 0>>] = "P"
  /\ events[1].s[<<1, 0>>] # "P"
  /\ events[1].s[<<0, 1>>] # "P"
  /\ events[1].s[<<1, 1>>] = "P"
  /\ events[1].s[<<2, 1>>] = "P"
  /\ DOMAIN events[1].n = {0, 1}
  /\ events[1].n[0] = {<<0, 0>>}
  /\ <<2, 1>> \in events[1].n[1]

\* A pixel the mask lets a body stand on: inside the image, black or white.
WalkablePixel(img, p) == p \in MaskPoints /\ img[p] \in {"W", "P"}

RectPixels(rect) ==
  (rect.left..(rect.left + rect.width - 1))
    \X (rect.top..(rect.top + rect.height - 1))

\* The four corner pixels and the centre of a rectangle.
FiveSamples(rect) ==
  LET right == rect.left + rect.width
      bottom == rect.top + rect.height
  IN {<<rect.left, rect.top>>, <<right - 1, rect.top>>,
      <<rect.left, bottom - 1>>, <<right - 1, bottom - 1>>,
      <<rect.left + rect.width \div 2, rect.top + rect.height \div 2>>}

\* C24: rect_collides(rect) is true exactly when at least one of the five
\* sample points (four corner pixels and the centre) is not walkable; so a
\* rectangle whose only unwalkable pixels are away from those points is
\* reported as not colliding.
C24_RectCollidesSamplesFivePoints ==
  RectAsked =>
    /\ events[2].n
         = (\E p \in FiveSamples(events[2].s) : ~WalkablePixel(events[1].s, p))
    /\ (\A p \in RectPixels(events[2].s) :
          ~WalkablePixel(events[1].s, p) => p \notin FiveSamples(events[2].s))
         => ~events[2].n

\* A rectangle covering an unwalkable pixel that is none of its five sample
\* points was asked about and reported as not colliding.
C24_Witness ==
  /\ RectAsked
  /\ \E p \in RectPixels(events[2].s) :
       /\ ~WalkablePixel(events[1].s, p)
       /\ p \notin FiveSamples(events[2].s)
  /\ \A p \in FiveSamples(events[2].s) : WalkablePixel(events[1].s, p)
  /\ ~events[2].n

\* ------------------------------------------------------- registry claims
\* The step is a call of move_npc_to_scene.
MovedNpcToScene ==
  phase = "registry" /\ events' # <<>> /\ events'[1].k = "move_npc_to_scene"

\* C25: move_npc_to_scene(id, scene) changes only the registry's location
\* entry of that NPC: the NPC objects (coordinates, path, scene path) and
\* the other NPCs' locations stay as they were, and for an id that is not
\* registered nothing changes.
C25_MoveChangesOnlyTheLocationEntry ==
  [][MovedNpcToScene =>
       LET id == events'[1].s[1]
           scene == events'[1].s[2]
       IN /\ npcs' = npcs
          /\ DOMAIN npc_locations' = DOMAIN npc_locations
          /\ \A other \in DOMAIN npc_locations \ {id} :
               npc_locations'[other] = npc_locations[other]
          /\ id \in DOMAIN npc_locations => npc_locations'[id] = scene
          /\ id \notin DOMAIN npc_locations => npc_locations' = npc_locations]_vars

\* henry, under way with a local path and a scene path, was moved from S1 to
\* S2 while yuki is registered in S1.
C25_Witness ==
  /\ phase = "registry"
  /\ events # <<>>
  /\ events[1].k = "move_npc_to_scene"
  /\ events[1].s = <<"henry", "S2">>
  /\ events[1].n = "S1"
  /\ npc_locations = [henry |-> "S2", yuki |-> "S1"]
  /\ npcs["henry"].path # <<>>
  /\ npcs["henry"].scene_path # <<>>

\* ------------------------------------------------- failed schedule claims
\* The step is a ScheduleController.update.
ControllerStep == phase = "schedule" /\ events' # <<>> /\ events'[1].k = "sched"

\* C26: when the schedule file is missing or malformed the controller ends up
\* with an empty action list, and every later update(dt) returns without
\* error and without changing any NPC state.
C26_BadFileLeavesNpcAlone ==
  /\ [](actions = <<>>)
  /\ [][ControllerStep =>
          /\ phase' # "crashed"
          /\ UNCHANGED <<npcs, npc_locations, scene_npcs, actions, loop_enabled,
                         current_action, is_executing>>]_vars

\* The controller of a file that failed after its loop entry was updated
\* past 08:15 while the NPC was walking.
C26_Witness ==
  /\ ControllerUpdated
  /\ actions = <<>>
  /\ loop_enabled
  /\ game_time >= 8 * 60 + 15
  /\ HasPath(npcs[ScheduledNpc])
  /\ ~is_executing

\* ----------------------------------------------------- preemption claims
MovementTypes == {"move_to", "navigate_to_scene"}

\* The NPC stands where the movement action a was to take it.
AtScheduledDestination(a) ==
  IF a.action_type = "navigate_to_scene"
  THEN npc_locations[ScheduledNpc] = a.target_scene
  ELSE /\ a.scene # NoScene => npc_locations[ScheduledNpc] = a.scene
       /\ _get_feet_position(npcs[ScheduledNpc]) = a.x

\* The controller update of this step starts an entry in place of a movement
\* action it had started before.
PreemptsMovement ==
  /\ SchedTicked'
  /\ current_action # 0
  /\ dispatched' # 0
  /\ dispatched' # current_action
  /\ actions[current_action].action_type \in MovementTypes

\* C28: every time a new schedule entry preempts a move_to or
\* navigate_to_scene action whose NPC has not reached the scheduled
\* destination, a warning is emitted.
C28_NoSilentPreemption ==
  [][(PreemptsMovement /\ ~AtScheduledDestination(actions[current_action]))
       => \E i \in DOMAIN events' : events'[i].k = "warning"]_vars

\* ------------------------------------------------------------ idle claims
\* The controller's current action is an idle entry it is executing.
IdleExecuting ==
  /\ current_action # 0
  /\ is_executing
  /\ actions[current_action].action_type = "idle"

\* C29: a scheduled idle action never reports itself complete: its dispatch
\* clears the NPC's path, destination and scene path (velocity is not part
\* of the model), and from then on it stays the executing action on every
\* step until a controller update resolves a different entry.
C29_IdleLastsUntilNextEntry ==
  /\ [][(SchedTicked' /\ dispatched' # 0
         /\ actions[dispatched'].action_type = "idle") =>
          /\ current_action' = dispatched' /\ is_executing'
          /\ npcs'[ScheduledNpc].path = <<>>
          /\ npcs'[ScheduledNpc].destination = NoPos
          /\ npcs'[ScheduledNpc].scene_path = <<>>
          /\ npcs'[ScheduledNpc].target_scene = NoScene]_vars
  /\ [][IdleExecuting =>
          \/ /\ current_action' = current_action
             /\ is_executing'
             /\ \A i \in DOMAIN events' : events'[i].k # "finished"
          \/ SchedTicked' /\ resolved' \notin {0, current_action}]_vars

\* The controller was updated a clock step after it had started an idle
\* entry, resolved the same entry and kept executing it.
C29_Witness ==
  /\ SchedTicked
  /\ IdleExecuting
  /\ dispatched = 0
  /\ resolved = current_action
  /\ game_time > actions[current_action].time_minutes

\* ------------------------------------------------------ scene path claims
\* C30: whenever an NPC has a pending scene path, the scene of its current
\* step, scene_path[current_scene_step], is the NPC's location in the
\* registry: after every update, portal transition and off-screen hop.
C30_ScenePathStepIsLocation ==
  \A id \in NpcIds :
    HasScenePath(npcs[id]) =>
      npcs[id].scene_path[npcs[id].current_scene_step + 1].scene
        = npc_locations[id]


\* C27: remove_npc is a no-op for an unregistered id, and after an NPC with a
\* local path or a pending scene path is removed while it is in the active
\* scene's list, no later update of that scene raises.
C27_RemovalNeverCrashesTheScene ==
  (/\ events # <<>>
   /\ events[1].k = "remove_npc"
   /\ events[1].n[1]
   /\ (events[1].n[2] \/ events[1].n[3]))
  => phase # "crashed"


AfterTravelExit(id) ==
  TravelToSceneState_exit(World(npcs, npc_locations, scene_npcs, <<>>), id)

\* C32: after TravelToSceneState.exit an NPC registered in the active scene
\* is in that scene's list exactly once, its scene and mask references set to
\* that scene; for an NPC registered elsewhere the list is left as it was.
C32_TravelExitAttachesArrivedNpc ==
  \A id \in NpcIds :
    npcs[id].state = STATE_TRAVEL =>
      IF get_npc_location(npc_locations, id) = active_scene
      THEN /\ Cardinality({i \in DOMAIN AfterTravelExit(id).list :
                             AfterTravelExit(id).list[i] = id}) = 1
           /\ AfterTravelExit(id).npcs[id].scene = active_scene
           /\ AfterTravelExit(id).npcs[id].mask_system = active_scene
      ELSE AfterTravelExit(id).list = scene_npcs

\* A Travel exit appended the NPC to the list of the scene it arrived in.
C32_Witness ==
  /\ InSeq(scene_npcs, "henry")
  /\ \E i \in DOMAIN events :
       /\ events[i].k = "attach"
       /\ \E j \in 1..(i - 1) : events[j].k = "exit" /\ events[j].s = STATE_TRAVEL


TravelEntered == events # <<>> /\ events[1].k = "travel_enter"

\* The scenes Travel.enter asked pathfind_to_scene for.
TravelRequests ==
  {events[i].s : i \in {j \in 2..Len(events) : events[j].k = "path_request"}}

\* The targets of the PORTAL_MAP edges out of scene from, from itself left out.
OutgoingTargets(from) ==
  IF from \notin DOMAIN PORTAL_MAP THEN {}
  ELSE {PORTAL_MAP[from][i].to_scene : i \in DOMAIN PORTAL_MAP[from]} \ {from}

\* C33: Travel.enter requests travel only to the target of an outgoing portal
\* edge of the NPC's registry scene, never to that scene itself; with no
\* registry location or no edge to another scene it clears the local path
\* and requests nothing.
C33_TravelTargetsAnOutgoingEdge ==
  TravelEntered =>
    /\ TravelRequests \subseteq OutgoingTargets(events[1].s)
    /\ OutgoingTargets(events[1].s) = {} =>
         /\ TravelRequests = {}
         /\ npcs[TravelStartNpc].path = <<>>

\* Travel was entered in the room with a door onto itself and a door out,
\* and asked for the room behind the second door.
C33_Witness ==
  /\ TravelEntered
  /\ events[1].s = "S5"
  /\ TravelRequests = {"S1"}

\* Travel was entered in a room whose only door leads onto itself, by an NPC
\* on a local path.
C33_WitnessNoEdge ==
  /\ TravelEntered
  /\ events[1].s = "S6"
  /\ TravelRequests = {}


\* C34: the path an NPC follows on a Wander trip in a loaded scene, as first
\* computed and as re-computed by the stuck check and the periodic re-path,
\* holds no portal pixel.
C34_WanderPathAvoidsPortals ==
  npcs[TripNpc].state = STATE_WANDER =>
    \A i \in DOMAIN npcs[TripNpc].path : TripImage[npcs[TripNpc].path[i]] # "P"

\* ------------------------------------------------- off-screen wander claims
OffscreenNpc == NpcOrder[1]

\* The Wander state holds a warp: it was entered off screen with a target.
Warping(n) == n.state = STATE_WANDER /\ n.warp_time > 0

\* The step was an update of the NPC / one in which Wander reported complete.
TickedNow == \E i \in DOMAIN events' : events'[i].k = "tick"
WanderCompletedNow ==
  \E i \in DOMAIN events' : events'[i].k = "complete" /\ events'[i].s = STATE_WANDER

UpdatedNow(id) == update_count'[id] = update_count[id] + 1
StateEnteredNow == \E i \in DOMAIN events' : events'[i].k = "enter"

PortalTakenNow == \E i \in DOMAIN events' : events'[i].k = "portal"

\* The Wander state was entered and its sampling found no point.
NoWanderTarget(n) ==
  n.state = STATE_WANDER /\ n.wander_target = NoPos /\ n.warp_time = 0

\* C36: a Wander entry whose sampling found no valid point in all its attempts
\* leaves the NPC without a local path and where it was (a warp that completed
\* before it or a portal taken after it in the same update aside); at the next
\* update the state reports complete and the state machine enters a newly
\* drawn state in that same update.
C36_WanderWithoutTargetEndsAtOnce ==
  [][\A id \in NpcIds :
       UpdatedNow(id) =>
         /\ (StateEnteredNow /\ NoWanderTarget(npcs'[id]))
              => /\ npcs'[id].path = <<>>
                 /\ (~Warping(npcs[id]) /\ ~PortalTakenNow)
                      => npcs'[id].x = npcs[id].x
         /\ NoWanderTarget(npcs[id]) => (WanderCompletedNow /\ StateEnteredNow)]_vars

\* A Wander entry without a target has just been left for Idle.
C36_Witness ==
  /\ npcs[OffscreenNpc].state = STATE_IDLE
  /\ npcs[OffscreenNpc].wander_target = NoPos
  /\ npcs[OffscreenNpc].mask_system # NoScene
  /\ \E i \in DOMAIN events : events[i].k = "complete" /\ events[i].s = STATE_WANDER
  /\ \E i \in DOMAIN events : events[i].k = "enter" /\ events[i].s = STATE_IDLE

\* The Wander entry the NPC is in selected no target: its sampling found no
\* point, or its scene has no cached mask for an NPC that is off screen.
EnteredWithoutTarget(id) ==
  /\ npcs[id].state = STATE_WANDER
  /\ \/ npcs[id].wander_target = NoPos
     \/ /\ npcs[id].mask_system = NoScene
        /\ get_mask_for_scene(get_npc_location(npc_locations, id)) = NoScene

\* C37: while the NPC is in a Wander entry that selected no target, no update
\* moves it (unless the update ends the entry and the Travel state entered
\* next carries the NPC on), whatever target and warp time earlier Wander
\* entries left behind.
C37_TargetlessWanderNeverMovesTheNpc ==
  [][\A id \in NpcIds :
       (EnteredWithoutTarget(id) /\ TickedNow /\ npcs'[id].state # STATE_TRAVEL)
         => npcs'[id].x = npcs[id].x]_vars

\* ------------------------------------------------- stuck and re-path claims
\* An update that ran the NPC's movement only: no state was entered, no portal
\* taken, nothing raised.  The log opens with the NPC at the call.
PlainUpdate ==
  /\ events # <<>>
  /\ events[1].k = "update"
  /\ phase # "crashed"
  /\ \A i \in DOMAIN events : events[i].k \notin {"enter", "portal"}

NpcAtCall == events[1].n

HasActivePath(n) == HasPath(n) /\ n.destination # NoPos
StuckTooLong(n) ==
  _get_feet_position(n) = n.last_position /\ n.stuck_timer + dt > StuckLimit
RepathDue(n) == n.repath_timer + dt >= RepathInterval

C38_WitnessStuck ==
  /\ PlainUpdate
  /\ HasActivePath(NpcAtCall)
  /\ StuckTooLong(NpcAtCall)
  /\ npcs[RepathNpc].stuck_timer = 0

\* ------------------------------------------------- unreachable scene claims
\* The log opens with a pathfind_to_scene request.
SceneRequested == events # <<>> /\ events[1].k = "pathfind_to_scene"
RequestedScene == events[1].s[1]
NpcAtRequest == events[1].n[1]
LocationsAtRequest == events[1].n[2]

\* The scene the request starts from: the registry's, else the NPC's own.
SceneAtRequest ==
  IF get_npc_location(LocationsAtRequest, TravelStartNpc) # NoScene
  THEN get_npc_location(LocationsAtRequest, TravelStartNpc)
  ELSE NpcAtRequest.scene

\* The scenes within k edges of a scene.
RECURSIVE ScenesWithin(_, _)
ScenesWithin(from, k) ==
  IF k = 0 THEN {from}
  ELSE LET near == ScenesWithin(from, k - 1)
       IN near \cup UNION {OutgoingTargets(s) : s \in near}

HasRoute(from, to) == to \in ScenesWithin(from, Cardinality(AllScenes))

\* C39: a pathfind_to_scene request for a scene the graph has no route to from
\* the NPC's current scene changes nothing: the whole NPC (local path, waypoint
\* index, destination, scene path, step, target scene, position) and the
\* registry are as they were at the call.
C39_UnreachableSceneChangesNothing ==
  (SceneRequested /\ SceneAtRequest # NoScene
     /\ ~HasRoute(SceneAtRequest, RequestedScene))
    => /\ npcs[TravelStartNpc] = NpcAtRequest
       /\ npc_locations = LocationsAtRequest
       /\ Len(events) = 1

\* A walking NPC in S1 was sent towards S4, which no door leads to.
C39_Witness ==
  /\ SceneRequested
  /\ SceneAtRequest = "S1"
  /\ RequestedScene = "S4"
  /\ ~HasRoute("S1", "S4")
  /\ NpcAtRequest.path # <<>>
  /\ npcs[TravelStartNpc].path = NpcAtRequest.path

\* ------------------------------------------------- registry key set claims
\* The scene names a location entry can hold.
LocationNames == {npc_locations[id] : id \in DOMAIN npc_locations} \cup AllScenes

ScenesReturning(id) ==
  {s \in LocationNames : id \in get_npcs_in_scene(npcs, npc_locations, s)}

\* C40: after any sequence of initialize_world, move_npc_to_scene, remove_npc
\* and apply_world_state the NPC map and the location map have the same keys:
\* get_npcs_in_scene returns a registered NPC for exactly one scene and an id
\* that is not registered for none.
C40_NpcAndLocationKeysAgree ==
  /\ DOMAIN npcs = DOMAIN npc_locations
  /\ \A id \in DOMAIN npcs : Cardinality(ScenesReturning(id)) = 1
  /\ \A id \in CallerIds \ DOMAIN npcs : ScenesReturning(id) = {}

\* With yuki not registered, a saved state naming both NPCs was applied: henry
\* is where the state says, yuki is nowhere.
C40_Witness ==
  /\ phase = "registry"
  /\ events # <<>>
  /\ events[1].k = "apply_world_state"
  /\ {"henry", "yuki"} \subseteq DOMAIN events[1].n
  /\ events[1].n["henry"].scene = "S2"
  /\ events[1].n["yuki"].scene = "S1"
  /\ DOMAIN npcs = {"henry"}
  /\ npc_locations = [henry |-> "S2"]

====
